---- MODULE Spec2Model ----
(***************************************************************************)
(* A model of the forkscanner engine (src/src/scanner.rs, src/src/models.rs).*)
(*                                                                         *)
(*   Spec        one scan pass after another over the relational store     *)
(*               (ForkScanner::run and the store operations it calls)      *)
(*   SpecMirror  the two operations that drive a mirror node through       *)
(*               invalidate / reconsider cycles: the inflation worker      *)
(*               (inflation_checks) followed by the rollback validator     *)
(*               (rollback_checks), as run() calls them                    *)
(*   SpecCommands    SetTip commands sent by the api and drained by run()  *)
(*   SpecActivation  one call of set_tip_active, iteration by iteration    *)
(*   SpecIngest      calls of create_block_and_ancestors on the blocks     *)
(*                   table                                                 *)
(*   SpecLink        the linking loop of run() over three active tips      *)
(*   SpecSplit       scan passes over two nodes whose tips split           *)
(*   SpecInflation   calc_max_inflation and the comparison of a block's    *)
(*                   outset with its parent's                              *)
(*   SpecParent      check_parent and match_parent on the active tip of a  *)
(*                   node, among the tips of two other nodes               *)
(*   SpecTip         calls of Chaintip::set_active_tip on linked tips      *)
(*   SpecMarked      the mirror operations when the node has marked a      *)
(*                   fork tip of which the mirror has only the headers     *)
(*   SpecNodes       the loop of run() over the nodes, answer by answer    *)
(*   SpecDispatch    the listener thread of run_server between the engine  *)
(*                   and the subscribers of the api                        *)
(*   SpecWorkers     two inflation workers on the one blocks table,        *)
(*                   statement by statement                                *)
(*   SpecReject      scan passes in which one node comes to reject the     *)
(*                   block another node builds on                          *)
(*   SpecSubscriber  the threads of the active_fork subscribers next to    *)
(*                   the listener thread; SpecSubscriberFair adds that     *)
(*                   the threads keep running                              *)
(***************************************************************************)
EXTENDS Integers, Sequences, FiniteSets, TLC

VARIABLES
    blocks,          \* blocks table: hash -> row
    chaintips,       \* chaintips table: sequence of rows in insertion order
    nextId,          \* next value of the chaintips.id sequence
    invalid_blocks,  \* invalid_blocks table: set of <<hash, node>>
    valid_blocks,    \* valid_blocks table: set of <<hash, node>>
    stale,           \* stale_candidate table: height -> row
    stale_children,  \* stale_candidate_children table: set of rows
    tx_outsets,      \* tx_outsets table: set of <<hash, node>>; under SpecInflation
                     \* rows with total_amount and inflated
    inflated_blocks, \* inflated_blocks table: set of rows
    rpc,             \* what each node answers to getchaintips
    pass,            \* position of run() inside the current pass
    events,          \* ScannerMessages sent on notify_tx in the current pass
    hist,            \* observations of earlier passes or calls (for comparisons)
    mirror,          \* the mirror node: active tip, failure flags, network
    rb,              \* rollback_checks: position and locals
    infl,            \* inflation worker: position and locals
    op,              \* RPC calls made on the mirror by the running operation
    command,         \* the command channel and the SetTip being handled
    clients,         \* the bitcoind behind each client, as SetTip drives it
    subscriptions,   \* run_server: topic -> the Senders of its subscribers
    channels         \* the channel of each subscriber: queue, receiver alive

vars == <<blocks, chaintips, nextId, invalid_blocks, valid_blocks, stale,
          stale_children, tx_outsets, inflated_blocks, rpc, pass, events, hist, mirror, rb,
          infl, op, command, clients, subscriptions, channels>>

storeVars == <<blocks, chaintips, nextId, invalid_blocks, valid_blocks, stale,
               stale_children, tx_outsets, inflated_blocks>>

\* the topics of run_server
Topics == {"active_fork", "forks", "validation_checks", "invalid_block_checks",
           "lagging_nodes", "watched_addresses"}

\* the map of run_server before any subscription; a topic without an entry
\* and a topic with an empty list forward to nobody alike
NoSubscriptions == [t \in Topics |-> <<>>]

----------------------------------------------------------------------------
(* Bounds of the model and constants of the program.                        *)

BaseHeight == 20            \* height of the lowest block of the universe
MaxPasses == 2              \* passes explored by Spec
MaxMirrorPasses == 2        \* passes explored by SpecMirror

MAX_ANCESTRY_DEPTH == 100
MAX_BLOCK_DEPTH == 10
STALE_WINDOW == 100
DOUBLE_SPEND_RANGE == 30
MAX_RETRY == 100            \* the literal in "retry_count > 100"
SATOSHI_TO_BTC == 100000000
HALVING_INTERVAL == 210000  \* the literal in "height as usize / 210_000"
SHIFT_WIDTH == 64           \* bits of the i64 that calc_max_inflation shifts
LongLen == 103              \* blocks of the branch a node serves on top of "c"
MaxCommands == 2            \* SetTip commands the api sends
MaxCommandPasses == 2       \* passes explored by SpecCommands
MaxIterations == 104        \* iterations of one set_tip_active loop explored
MaxIngests == 2             \* ingest calls with fresh arguments in SpecIngest
MaxSplitPasses == 2         \* passes explored by SpecSplit
MaxRejectPasses == 2        \* passes explored by SpecReject
MaxNodePasses == 2          \* passes explored by SpecNodes
MaxTipCalls == 2            \* calls of set_active_tip under SpecTip
MaxSubscribers == 3         \* subscriptions opened under SpecDispatch
MaxForkEvents == 2          \* events of the engine under SpecSubscriber
MaxHandlers == 2            \* subscribers of active_fork under SpecSubscriber
MaxNotified == 3            \* events the engine sends under SpecDispatch

----------------------------------------------------------------------------
(* The block tree the nodes know: a trunk t0 <- t1 <- .. <- t8 <- a, the   *)
(* chain a <- b <- c on top of it, and the forks a <- x <- y and a <- z.    *)

NoHash == "none"
MainChain == <<"t0", "t1", "t2", "t3", "t4", "t5", "t6", "t7", "t8", "a", "b", "c">>
Forks == {"x", "y", "z"}
Universe == {MainChain[i] : i \in 1..Len(MainChain)} \cup Forks

MainPos(h) == CHOOSE i \in 1..Len(MainChain) : MainChain[i] = h

\* A branch of LongLen blocks on top of "c", deeper than the ancestry cap.
\* A node that ran ahead serves its headers; the mirror never sees it.
LongHash(i) == "L" \o ToString(i)
LongChain == {LongHash(i) : i \in 1..LongLen}
LongIndex == [h \in LongChain |-> CHOOSE i \in 1..LongLen : LongHash(i) = h]
LongTip == LongHash(LongLen)

ParentOf(h) ==
    CASE h = "x" -> "a"
      [] h = "y" -> "x"
      [] h = "z" -> "a"
      [] h \in Universe \ Forks ->
            IF MainPos(h) = 1 THEN NoHash ELSE MainChain[MainPos(h) - 1]
      [] h \in LongChain ->
            IF LongIndex[h] = 1 THEN "c" ELSE LongHash(LongIndex[h] - 1)
      [] OTHER -> NoHash

Depth(h) ==
    CASE h = "x" -> MainPos("a")
      [] h = "y" -> MainPos("a") + 1
      [] h = "z" -> MainPos("a")
      [] h \in Universe \ Forks -> MainPos(h) - 1
      [] h \in LongChain -> MainPos("c") - 1 + LongIndex[h]
      [] OTHER -> 0

DepthTable == [h \in Universe |-> Depth(h)]

HeightOf(h) == BaseHeight + (IF h \in Universe THEN DepthTable[h] ELSE Depth(h))

RECURSIVE AncestorsFrom(_)
AncestorsFrom(h) == IF h = NoHash THEN {} ELSE {h} \cup AncestorsFrom(ParentOf(h))

AncestorTable == [h \in Universe |-> AncestorsFrom(h)]

\* h and every block below it in the tree
Ancestors(h) == IF h \in Universe THEN AncestorTable[h] ELSE {}

Descendants(h) == {d \in Universe : h \in Ancestors(d)}

\* getchaintips lists tips by decreasing height; equal heights in this order
TipOrder == <<"c", "y", "b", "x", "z", "a", "t8", "t7", "t6", "t5", "t4", "t3",
              "t2", "t1", "t0">>

RankTable == [h \in Universe |-> CHOOSE i \in 1..Len(TipOrder) : TipOrder[i] = h]

Rank(h) == RankTable[h]

SeqToSet(s) == {s[i] : i \in 1..Len(s)}

Nodes == {"n1", "n2"}
NodeList == <<"n1", "n2">>       \* node_list / clients, in order
MirrorNode == "n1"               \* the node configured with a mirror

----------------------------------------------------------------------------
(* The mirror node as seen through its RPC interface (bitcoind):            *)
(* invalidateblock flags a block, its descendants become invalid, and the   *)
(* node falls back to the best remaining chain; reconsiderblock clears the  *)
(* flags of a block, its ancestors and its descendants.  mirror.bad are the *)
(* blocks that fail validation when the node tries to connect them.         *)

InvalidOn(m, h) == Ancestors(h) \cap m.invalid # {}

\* the best chain tip among the blocks without a failure flag
BestOf(inv) ==
    LET cand == {h \in Universe : Ancestors(h) \cap inv = {}}
    IN  IF cand = {} THEN NoHash
        ELSE CHOOSE h \in cand : \A k \in cand :
                \/ HeightOf(k) < HeightOf(h)
                \/ HeightOf(k) = HeightOf(h) /\ Rank(h) <= Rank(k)

RECURSIVE Settle(_, _)
\* activate the best chain; a chain holding a bad block is flagged and dropped
Settle(inv, bad) ==
    LET b == BestOf(inv)
        badOnPath == Ancestors(b) \cap bad
    IN  IF b = NoHash \/ badOnPath = {} THEN [invalid |-> inv, active |-> b]
        ELSE Settle(inv \cup badOnPath, bad)

NodeInvalidate(m, h) ==
    IF h \notin Universe \/ ParentOf(h) = NoHash THEN m   \* genesis: RPC error
    ELSE LET inv == m.invalid \cup {h}
         IN  IF h \in Ancestors(m.active)
             THEN LET s == Settle(inv, m.bad)
                  IN  [m EXCEPT !.invalid = s.invalid, !.active = s.active,
                                !.validated = @ \cup Ancestors(s.active)]
             ELSE [m EXCEPT !.invalid = inv]

NodeReconsider(m, h) ==
    IF h \notin Universe THEN m
    ELSE LET inv == m.invalid \ (Ancestors(h) \cup Descendants(h))
             s == Settle(inv, m.bad)
         IN  IF s.active # NoHash /\ HeightOf(s.active) > HeightOf(m.active)
             THEN [m EXCEPT !.invalid = s.invalid, !.active = s.active,
                            !.validated = @ \cup Ancestors(s.active)]
             ELSE [m EXCEPT !.invalid = inv]

TipStatus(m, h) ==
    IF h = m.active THEN "active"
    ELSE IF InvalidOn(m, h) THEN "invalid"
    ELSE IF h \in m.validated THEN "valid-fork"
    ELSE "valid-headers"

Leaves == {h \in Universe : \A k \in Universe : ParentOf(k) # h}

\* the answer of getchaintips
GetChainTips(m) ==
    LET shown(h) == h \in Leaves \cup {m.active}
        row(h) == [hash |-> h, height |-> HeightOf(h), status |-> TipStatus(m, h)]
        sel == SelectSeq(TipOrder, shown)
    IN  [i \in 1..Len(sel) |-> row(sel[i])]

ActiveOf(tips) ==
    LET i == CHOOSE i \in 1..Len(tips) : tips[i].status = "active" IN tips[i]

RECURSIVE InvalidateAll(_, _, _)
\* "let _ = client.invalidate_block(&b)" for each hash; calls in fails error out
InvalidateAll(m, hashes, fails) ==
    IF hashes = <<>> THEN m
    ELSE InvalidateAll(IF Head(hashes) \in fails THEN m
                       ELSE NodeInvalidate(m, Head(hashes)),
                       Tail(hashes), fails)

RECURSIVE ReconsiderAll(_, _, _)
\* "let _ = client.reconsider_block(&hash)" for each hash
ReconsiderAll(m, hashes, fails) ==
    IF hashes = <<>> THEN m
    ELSE ReconsiderAll(IF Head(hashes) \in fails THEN m
                       ELSE NodeReconsider(m, Head(hashes)),
                       Tail(hashes), fails)

----------------------------------------------------------------------------------------------------------------------------------------
(* Store queries on a blocks table blks (src/src/models.rs).                *)

\* Block::parent: Err(NotFound) without parent_hash or without the parent row
StoredParent(blks, h) ==
    IF h \in DOMAIN blks /\ blks[h].parent_hash # NoHash
                         /\ blks[h].parent_hash \in DOMAIN blks
    THEN blks[h].parent_hash ELSE NoHash

\* Block::children: the rows whose parent_hash is h
BlockChildren(blks, h) ==
    LET isChild(k) == k \in DOMAIN blks /\ blks[k].parent_hash = h
    IN  SelectSeq(TipOrder, isChild)

RECURSIVE StoredAncestorAt(_, _, _)
\* "while block1.height > tip_height { block1 = block1.parent()? }"
StoredAncestorAt(blks, h, height) ==
    IF h = NoHash THEN NoHash
    ELSE IF blks[h].height > height
         THEN StoredAncestorAt(blks, StoredParent(blks, h), height)
         ELSE h

RECURSIVE StoredDescendants(_, _)
\* Block::descendants(None): the recursive query over parent_hash links
StoredDescendants(blks, h) ==
    IF h \notin DOMAIN blks THEN {}
    ELSE {h} \cup UNION {StoredDescendants(blks, k) :
                            k \in {j \in DOMAIN blks : blks[j].parent_hash = h}}

RECURSIVE ForkLoop(_, _, _)
\* the closing loop of find_branch_point / find_fork_point
ForkLoop(blks, b, tip) ==
    LET p == StoredParent(blks, b)
    IN  IF p = NoHash THEN NoHash
        ELSE IF tip \in StoredDescendants(blks, p) THEN p
        ELSE ForkLoop(blks, p, tip)

\* ForkScanner::find_branch_point and find_fork_point (the same walk)
find_branch_point(blks, active, tip_hash, tip_height) ==
    IF active.height <= tip_height THEN NoHash
    ELSE IF active.hash \notin DOMAIN blks THEN NoHash
    ELSE LET block1 == StoredAncestorAt(blks, active.hash, tip_height)
         IN  IF block1 = NoHash THEN NoHash
             ELSE IF block1 = tip_hash THEN NoHash
             ELSE ForkLoop(blks, block1, tip_hash)

\* blocks_to_invalidate of one round of set_tip_active / make_block_active
BlocksToInvalidate(blks, active, tip_hash, tip_height) ==
    IF active.height = tip_height THEN <<active.hash>>
    ELSE LET branch == find_branch_point(blks, active, tip_hash, tip_height)
         IN  (IF branch = NoHash THEN <<>> ELSE <<branch>>)
             \o BlockChildren(blks, tip_hash)

\* invalidated_hashes left as it was
PushNone(invalidated_hashes, blocks_to_invalidate) == invalidated_hashes

\* "invalidated_hashes.push(block)" for each block of the round
PushAll(invalidated_hashes, blocks_to_invalidate) ==
    invalidated_hashes \o blocks_to_invalidate

\* One iteration of the loop of set_tip_active / make_block_active on the
\* mirror, for the locals loc = [inv, retry]: result "again" (loop), "ok"
\* (break) or "failed" (FailedRollback).  tipsOk, childrenOk: the RPC and the
\* store query succeed; fails: the invalidateblock calls that error out.
ActivateRound(blks, m, loc, tip_hash, tip_height, tipsOk, childrenOk, fails) ==
    IF ~tipsOk THEN [res |-> "again", m |-> m, loc |-> loc, called |-> <<>>]
    ELSE LET active == ActiveOf(GetChainTips(m))
         IN  IF active.hash = tip_hash
             THEN [res |-> "ok", m |-> m, loc |-> loc, called |-> <<>>]
             ELSE IF loc.retry > MAX_RETRY
             THEN [res |-> "failed", m |-> m, loc |-> loc, called |-> <<>>]
             ELSE IF active.height # tip_height /\ ~childrenOk
             THEN [res |-> "again", m |-> m, loc |-> loc, called |-> <<>>]
             ELSE LET bti == BlocksToInvalidate(blks, active, tip_hash, tip_height)
                  IN  [res |-> "again",
                       m |-> InvalidateAll(m, bti, fails),
                       loc |-> [inv |-> PushAll(loc.inv, bti), retry |-> loc.retry + 1],
                       called |-> bti]

NoLocals == [inv |-> <<>>, retry |-> 0]

----------------
(* Block ingestion.                                                         *)

\* a stored flag replaced by the argument of the call
TakeArgument(stored, headers_only) == headers_only

\* "block.headers_only ^= headers_only"
FlipByArgument(stored, headers_only) == stored # headers_only

\* "block.headers_only &= headers_only" on a row that exists
KeepCleared(stored, headers_only) == stored /\ headers_only

RECURSIVE MarkConnected(_, _)
\* "UPDATE blocks SET connected = true WHERE parent_hash = <hash>", row by row
MarkConnected(blks, rows) ==
    IF rows = {} THEN blks
    ELSE LET k == CHOOSE k \in rows : TRUE
         IN  MarkConnected([blks EXCEPT ![k].connected = TRUE], rows \ {k})

\* Block::get_or_create on table blks for the header of h
get_or_create(blks, headers_only, first_seen_by, h) ==
    IF h \notin DOMAIN blks
    THEN LET row == [height |-> HeightOf(h), parent_hash |-> ParentOf(h),
                     connected |-> FALSE, headers_only |-> headers_only,
                     first_seen_by |-> first_seen_by, txids |-> FALSE]
             children == {k \in DOMAIN blks : blks[k].parent_hash = h}
         IN  [blocks |-> (h :> row) @@ MarkConnected(blks, children),
              block |-> row]
    ELSE LET row == [blks[h] EXCEPT
                       !.headers_only = KeepCleared(@, headers_only)]
         IN  [blocks |-> [blks EXCEPT ![h] = row], block |-> row]

\* What the node answers during one ingestion: hdrFailAt = i > 0 makes the
\* i-th getblockheader call fail; body is the answer to every getblock call.
Injections == [hdrFailAt : 0..2, body : {"ok", "pruned", "err"}]
NoInjection == [hdrFailAt |-> 0, body |-> "ok"]

\* an iteration that does not look at the connected flag of the row
IngestStepPastConnected(st, headers_only, node_id, inj) ==
    IF inj.hdrFailAt = st.i + 1 THEN [st EXCEPT !.res = "err"]
    ELSE LET g == get_or_create(st.blocks, headers_only, node_id, st.hash)
             upd == [g.blocks EXCEPT ![st.hash] = [g.block EXCEPT !.txids = TRUE]]
         IN  IF inj.body = "pruned" THEN [st EXCEPT !.blocks = g.blocks, !.res = "ok"]
             ELSE IF inj.body = "err" THEN [st EXCEPT !.blocks = g.blocks, !.res = "err"]
             ELSE IF g.block.parent_hash = NoHash
             THEN [st EXCEPT !.blocks = upd, !.res = "ok"]
             ELSE [st EXCEPT !.blocks = upd, !.i = @ + 1, !.hash = g.block.parent_hash]

\* one iteration of the loop of create_block_and_ancestors on the loop state
\* st: the table, the hash to fetch, the iteration index, and how the loop
\* stands ("loop", or ended by break / return Ok "ok", by return Err "err")
IngestStep(st, headers_only, node_id, inj) ==
    IF inj.hdrFailAt = st.i + 1 THEN [st EXCEPT !.res = "err"]
    ELSE LET g == get_or_create(st.blocks, headers_only, node_id, st.hash)
         IN  IF g.block.connected THEN [st EXCEPT !.blocks = g.blocks, !.res = "ok"]
             ELSE IF inj.body = "pruned"
             THEN [st EXCEPT !.blocks = g.blocks, !.res = "ok"]
             ELSE IF inj.body = "err"
             THEN [st EXCEPT !.blocks = g.blocks, !.res = "err"]
             ELSE LET upd == [g.blocks EXCEPT
                                ![st.hash] = [g.block EXCEPT !.txids = TRUE]]
                  IN  IF g.block.parent_hash = NoHash
                      THEN [st EXCEPT !.blocks = upd, !.res = "ok"]
                      ELSE [st EXCEPT !.blocks = upd, !.i = @ + 1,
                                      !.hash = g.block.parent_hash]

RECURSIVE IngestLoop(_, _, _, _, _)
\* n more iterations of "for _ in 0..MAX_ANCESTRY_DEPTH", unless the loop
\* has ended; the iterations are taken half and half
IngestLoop(st, n, headers_only, node_id, inj) ==
    IF n = 0 \/ st.res # "loop" THEN st
    ELSE IF n = 1 THEN IngestStep(st, headers_only, node_id, inj)
    ELSE IngestLoop(IngestLoop(st, n \div 2, headers_only, node_id, inj),
                    n - (n \div 2), headers_only, node_id, inj)

create_block_and_ancestors(blks, headers_only, block_hash, node_id, inj) ==
    LET st == IngestLoop([blocks |-> blks, hash |-> block_hash, i |-> 0,
                          res |-> "loop"],
                         MAX_ANCESTRY_DEPTH, headers_only, node_id, inj)
    IN  [blocks |-> st.blocks, ok |-> st.res # "err"]

RECURSIVE IngestAll(_, _, _)
\* the blocks table after ingesting each hash of a sequence without errors
IngestAll(blks, hashes, node_id) ==
    IF hashes = <<>> THEN blks
    ELSE IngestAll(create_block_and_ancestors(blks, FALSE, Head(hashes),
                                              node_id, NoInjection).blocks,
                   Tail(hashes), node_id)

EmptyBlocks == [h \in {} |-> 0]

\* the table once every tip of the universe has been ingested
FullStore == IngestAll(EmptyBlocks, <<"c", "y", "z">>, MirrorNode)

----------------------------------------------------------------------------
(* The chaintips table (src/src/models.rs): a set of rows; parent_chaintip  *)
(* NoTip stands for NULL.                                                   *)

NoTip == 0

Actives(tips) == {r \in tips : r.status = "active"}

NewTip(id, node, status, hash, height) ==
    [id |-> id, node |-> node, status |-> status, block |-> hash,
     height |-> height, parent_chaintip |-> NoTip]

\* the first row of a query result: the one with the lowest id
FirstRow(rows) == CHOOSE r \in rows : \A q \in rows : r.id <= q.id

\* a purge that deletes nothing
purge_nothing(tips) == tips

\* Chaintip::purge: delete the rows whose status is not active
purge(tips) == tips \ {r \in tips : r.status # "active"}

\* Chaintip::set_invalid_fork / set_valid_fork: a plain insert
set_invalid_fork(tips, id, block_height, hash, node_id) ==
    tips \cup {NewTip(id, node_id, "invalid", hash, block_height)}

set_valid_fork(tips, id, block_height, hash, node_id) ==
    tips \cup {NewTip(id, node_id, "valid-fork", hash, block_height)}

\* the second UPDATE without the reset of parent_chaintip
MoveTipKeepingParent(r, hash, block_height) ==
    [r EXCEPT !.block = hash, !.height = block_height]

\* the second UPDATE of set_active_tip, on the node's active row
MoveTip(r, hash, block_height) ==
    [r EXCEPT !.block = hash, !.height = block_height, !.parent_chaintip = NoTip]

\* an insert of the active tip whatever the table holds
set_active_tip_by_insert(tips, id, block_height, hash, node_id) ==
    [tips |-> tips \cup {NewTip(id, node_id, "active", hash, block_height)},
     rows |-> 1, used |-> TRUE]

\* a set_active_tip without the first UPDATE, on the rows that reference
\* the active row
set_active_tip_keeping_links(tips, id, block_height, hash, node_id) ==
    LET found == {r \in tips : r.status = "active" /\ r.node = node_id}
    IN  IF found = {}
        THEN [tips |-> tips \cup {NewTip(id, node_id, "active", hash, block_height)},
              rows |-> 1, used |-> TRUE]
        ELSE LET tip == FirstRow(found)
             IN  IF tip.block # hash
                 THEN [tips |-> {IF r.id = tip.id THEN MoveTip(r, hash, block_height)
                                 ELSE r : r \in tips},
                       rows |-> 1, used |-> FALSE]
                 ELSE [tips |-> tips, rows |-> 0, used |-> FALSE]

\* Chaintip::set_active_tip: rows is the count the call returns, used is
\* whether a new id was consumed
set_active_tip(tips, id, block_height, hash, node_id) ==
    LET found == {r \in tips : r.status = "active" /\ r.node = node_id}
    IN  IF found = {}
        THEN [tips |-> tips \cup {NewTip(id, node_id, "active", hash, block_height)},
              rows |-> 1, used |-> TRUE]
        ELSE LET tip == FirstRow(found)
             IN  IF tip.block # hash
                 THEN [tips |-> {IF r.id = tip.id THEN MoveTip(r, hash, block_height)
                                 ELSE IF r.parent_chaintip = tip.id
                                      THEN [r EXCEPT !.parent_chaintip = NoTip]
                                      ELSE r : r \in tips},
                       rows |-> 1, used |-> FALSE]
                 ELSE [tips |-> tips, rows |-> 0, used |-> FALSE]

\* the rows ahead of a height, whatever their status
list_any_gt(tips, tip_height) == {r \in tips : r.height > tip_height}

\* Chaintip::list_active_lt / list_active_gt / list_invalid_gt
list_active_lt(tips, tip_height) ==
    {r \in tips : r.height < tip_height /\ r.status = "active"}

list_active_gt(tips, tip_height) ==
    {r \in tips : r.height > tip_height /\ r.status = "active"}

list_invalid_gt(tips, tip_height) ==
    {r \in tips : r.height > tip_height /\ r.status = "invalid"}

\* a query result in table order (by id)
RECURSIVE InOrder(_)
InOrder(rows) ==
    IF rows = {} THEN <<>>
    ELSE LET r == FirstRow(rows) IN <<r>> \o InOrder(rows \ {r})

----------------------------------------------------------------------------
(* process_client: the tips one node reports, in the order of the answer.   *)

\* the answers of getchaintips a node can give
TipViews ==
    [n1 |-> [Vc |-> <<[hash |-> "c", height |-> HeightOf("c"), status |-> "active"],
                      [hash |-> "y", height |-> HeightOf("y"), status |-> "valid-fork"],
                      [hash |-> "z", height |-> HeightOf("z"), status |-> "valid-headers"]>>,
             Vy |-> <<[hash |-> "y", height |-> HeightOf("y"), status |-> "active"],
                      [hash |-> "c", height |-> HeightOf("c"), status |-> "valid-fork"],
                      [hash |-> "z", height |-> HeightOf("z"), status |-> "headers-only"]>>,
             Sb |-> <<[hash |-> "b", height |-> HeightOf("b"), status |-> "active"]>>,
             Si |-> <<[hash |-> "b", height |-> HeightOf("b"), status |-> "active"],
                      [hash |-> "x", height |-> HeightOf("x"), status |-> "invalid"]>>,
             Sc |-> <<[hash |-> "c", height |-> HeightOf("c"), status |-> "active"]>>],
     n2 |-> [Vb |-> <<[hash |-> "y", height |-> HeightOf("y"), status |-> "invalid"],
                      [hash |-> "b", height |-> HeightOf("b"), status |-> "active"],
                      [hash |-> "z", height |-> HeightOf("z"), status |-> "valid-fork"]>>,
             Vc |-> <<[hash |-> "c", height |-> HeightOf("c"), status |-> "active"],
                      [hash |-> "y", height |-> HeightOf("y"), status |-> "invalid"],
                      [hash |-> "z", height |-> HeightOf("z"), status |-> "valid-fork"]>>,
             Rb |-> <<[hash |-> "b", height |-> HeightOf("b"), status |-> "active"]>>,
             Rc |-> <<[hash |-> "b", height |-> HeightOf("b"), status |-> "active"],
                      [hash |-> "c", height |-> HeightOf("c"), status |-> "invalid"]>>,
             Sx |-> <<[hash |-> "x", height |-> HeightOf("x"), status |-> "active"]>>,
             Sy |-> <<[hash |-> "y", height |-> HeightOf("y"), status |-> "active"]>>]]

\* the answers while the two nodes sit on the two sides of a split above "a"
SplitChoices == [n1 : {"Sb", "Si", "Sc"}, n2 : {"Sx", "Sy"}]

\* the answers while the second node stays on "b" and comes to reject the
\* block "c" that the first node builds on
RejectChoices == [n1 : {"Sb", "Sc"}, n2 : {"Rb", "Rc"}]

RpcChoices == [n1 : {"Vc", "Vy"}, n2 : {"Vb", "Vc"}]

\* the header call of an ingestion fails / every call is answered
HeaderDown == [hdrFailAt |-> 1, body |-> "ok"]

\* the state process_client works on
ClientState(blks, tips, id, valid, invalid) ==
    [blocks |-> blks, chaintips |-> tips, nextId |-> id, valid_blocks |-> valid,
     invalid_blocks |-> invalid, changed |-> FALSE, ok |-> TRUE]

\* one iteration of the loop over the tips in process_client; an Err leaves
\* ok = FALSE with the writes made before the error
ProcessTip(st, tip, node_id, inj) ==
    LET headers_only == tip.status \in {"headers-only", "valid-headers"}
        act == set_active_tip(st.chaintips, st.nextId, tip.height, tip.hash, node_id)
        tips1 == CASE tip.status = "invalid" ->
                        set_invalid_fork(st.chaintips, st.nextId, tip.height,
                                         tip.hash, node_id)
                   [] tip.status = "valid-fork" ->
                        set_valid_fork(st.chaintips, st.nextId, tip.height,
                                       tip.hash, node_id)
                   [] tip.status = "active" -> act.tips
                   [] OTHER -> st.chaintips
        id1 == IF tip.status \in {"invalid", "valid-fork"}
                  \/ (tip.status = "active" /\ act.used)
               THEN st.nextId + 1 ELSE st.nextId
        ing == create_block_and_ancestors(st.blocks, headers_only, tip.hash,
                                          node_id, inj)
        st1 == [st EXCEPT !.chaintips = tips1, !.nextId = id1, !.blocks = ing.blocks]
    IN  IF ~ing.ok THEN [st1 EXCEPT !.ok = FALSE]
        ELSE CASE tip.status = "invalid" ->
                    \* Block::set_invalid: a plain insert, (hash, node) is the key
                    IF <<tip.hash, node_id>> \in st.invalid_blocks
                    THEN [st1 EXCEPT !.ok = FALSE]
                    ELSE [st1 EXCEPT !.invalid_blocks = @ \cup {<<tip.hash, node_id>>}]
               [] tip.status = "valid-fork" ->
                    [st1 EXCEPT !.valid_blocks = @ \cup {<<tip.hash, node_id>>}]
               [] tip.status = "active" ->
                    [st1 EXCEPT !.valid_blocks = @ \cup {<<tip.hash, node_id>>},
                                !.changed = @ \/ act.rows > 0]
               [] OTHER -> st1

RECURSIVE ProcessTips(_, _, _, _, _)
\* the loop of process_client from tip i on; the failAt-th ingestion fails
ProcessTips(st, tips, i, node_id, failAt) ==
    IF i > Len(tips) \/ ~st.ok THEN st
    ELSE ProcessTips(ProcessTip(st, tips[i], node_id,
                                IF i = failAt THEN HeaderDown ELSE NoInjection),
                     tips, i + 1, node_id, failAt)

RECURSIVE ProcessTipsPastError(_, _, _, _, _)
\* a loop that goes on to the next tip after an error
ProcessTipsPastError(st, tips, i, node_id, failAt) ==
    IF i > Len(tips) THEN st
    ELSE ProcessTipsPastError(ProcessTip(st, tips[i], node_id,
                                         IF i = failAt THEN HeaderDown ELSE NoInjection),
                              tips, i + 1, node_id, failAt)

process_every_tip(st, tips, node_id, failAt) ==
    ProcessTipsPastError(st, tips, 1, node_id, failAt)

process_client(st, tips, node_id, failAt) == ProcessTips(st, tips, 1, node_id, failAt)

----------------------------------------------------------------------------
(* Linking the active tips of the nodes (match_children, check_parent,      *)
(* match_parent).                                                           *)

RECURSIVE WalkDown(_, _, _, _, _, _)
\* the inner loop of the three functions: from block b down the stored
\* parents until target is met, a block marked invalid by node is met, or
\* stop_height is reached
WalkDown(blks, marks, b, target, stop_height, node) ==
    IF <<b, node>> \in marks THEN FALSE
    ELSE IF b = target THEN TRUE
    ELSE IF blks[b].parent_hash = NoHash \/ blks[b].height = stop_height THEN FALSE
    ELSE IF blks[b].parent_hash \notin DOMAIN blks THEN FALSE
    ELSE WalkDown(blks, marks, blks[b].parent_hash, target, stop_height, node)

\* Chaintip::update: the changeset of the in-memory row; a None field is
\* left out of the UPDATE
UpdateTip(tips, row) ==
    {IF r.id = row.id
     THEN [r EXCEPT !.node = row.node, !.status = row.status, !.block = row.block,
                    !.height = row.height,
                    !.parent_chaintip = IF row.parent_chaintip = NoTip THEN @
                                        ELSE row.parent_chaintip]
     ELSE r : r \in tips}

match_children(tips, blks, marks, tip) ==
    LET orphan(c) == c.parent_chaintip = NoTip
        cands == SelectSeq(InOrder(list_active_lt(tips, tip.height)), orphan)
        below(c) == WalkDown(blks, marks, tip.block, c.block, c.height, c.node)
    IN  IF cands = <<>> THEN [tips |-> tips, ok |-> TRUE]
        ELSE IF tip.block \notin DOMAIN blks THEN [tips |-> tips, ok |-> FALSE]
        ELSE LET hits == SelectSeq(cands, below)
             IN  IF hits = <<>> THEN [tips |-> tips, ok |-> TRUE]
                 ELSE [tips |-> UpdateTip(tips, [hits[1] EXCEPT
                                                   !.parent_chaintip = tip.id]),
                       ok |-> TRUE]

RECURSIVE CheckParentFrom(_, _, _, _)
CheckParentFrom(blks, tip, cands, i) ==
    IF i > Len(cands) THEN [tip |-> tip, ok |-> TRUE]
    ELSE IF cands[i].block \notin DOMAIN blks THEN [tip |-> tip, ok |-> FALSE]
    ELSE IF WalkDown(blks, {}, cands[i].block, tip.block, tip.height, tip.node)
    THEN [tip |-> [tip EXCEPT !.parent_chaintip = NoTip], ok |-> TRUE]
    ELSE CheckParentFrom(blks, tip, cands, i + 1)

\* the in-memory tip after check_parent
check_parent(tips, blks, tip) ==
    IF tip.parent_chaintip = NoTip THEN [tip |-> tip, ok |-> TRUE]
    ELSE CheckParentFrom(blks, tip, InOrder(list_invalid_gt(tips, tip.height)), 1)

RECURSIVE MatchParentFrom(_, _, _, _, _)
MatchParentFrom(blks, marks, tip, cands, i) ==
    IF i > Len(cands) THEN tip
    ELSE IF cands[i].block \notin DOMAIN blks THEN tip
    ELSE IF WalkDown(blks, marks, cands[i].block, tip.block, tip.height, tip.node)
    THEN [tip EXCEPT !.parent_chaintip = cands[i].id]
    ELSE MatchParentFrom(blks, marks, tip, cands, i + 1)

\* a match_parent that never asks marked_invalid_by
match_parent_ignoring_marks(tips, blks, marks, tip) ==
    IF tip.parent_chaintip # NoTip THEN tip
    ELSE MatchParentFrom(blks, {}, tip,
                         InOrder(list_active_gt(tips, tip.height)), 1)

\* the in-memory tip after match_parent
match_parent(tips, blks, marks, tip) ==
    IF tip.parent_chaintip # NoTip THEN tip
    ELSE MatchParentFrom(blks, marks, tip,
                         InOrder(list_active_gt(tips, tip.height)), 1)

\* one iteration of the linking loop of run() for node_id
LinkNode(tips, blks, marks, node_id) ==
    LET mine == {r \in tips : r.node = node_id /\ r.status = "active"}
    IN  IF mine = {} THEN tips
        ELSE LET tip == FirstRow(mine)
                 mc == match_children(tips, blks, marks, tip)
                 cp == check_parent(mc.tips, blks, tip)
                 checked == IF cp.tip = tip THEN mc.tips ELSE UpdateTip(mc.tips, cp.tip)
                 mp == match_parent(checked, blks, marks, cp.tip)
             IN  IF ~mc.ok THEN mc.tips
                 ELSE IF ~cp.ok THEN mc.tips
                 ELSE IF mp = cp.tip THEN checked
                 ELSE UpdateTip(checked, mp)

----------------------------------------------------------------------------
(* lag_checks and the stale candidates.                                     *)

MaxOf(S) == CHOOSE x \in S : \A y \in S : y <= x

\* lag_checks unwraps the maximum over the active tips and looks up the
\* block of each tip
LagChecksPanics(tips, blks) ==
    \/ Actives(tips) = {}
    \/ \E r \in Actives(tips) : r.block \notin DOMAIN blks

\* the chainwork of a stored block: it grows with the height
Work(blks, b) == blks[b].height

\* the nodes two blocks behind the highest active tip or with less work than
\* the heaviest one
Lagging(tips, blks) ==
    LET max_height == MaxOf({r.height : r \in Actives(tips)})
        max_work == MaxOf({Work(blks, r.block) : r \in Actives(tips)})
    IN  {r.node : r \in {q \in Actives(tips) :
                             \/ q.height < max_height - 1
                             \/ Work(blks, q.block) < max_work}}

AtHeight(blks, h) == {b \in DOMAIN blks : blks[b].height = h}

NoHeight == -1

\* the grouping without the join on invalid_blocks
StaleHeightsCountingMarked(blks, marks, height) ==
    {h \in {blks[b].height : b \in DOMAIN blks} :
        h > height /\ Cardinality(AtHeight(blks, h)) > 1}

\* Block::find_stale_candidates: the heights above the window with more than
\* one block that no node marked invalid
StaleHeights(blks, marks, height) ==
    LET clean(h) == {b \in AtHeight(blks, h) : \A n \in Nodes : <<b, n>> \notin marks}
    IN  {h \in {blks[b].height : b \in DOMAIN blks} :
            h > height /\ Cardinality(clean(h)) > 1}

\* ForkScanner::find_stale_candidates with StaleCandidate::create
find_stale_candidates(blks, marks, cands) ==
    IF DOMAIN blks = {} THEN cands
    ELSE LET tip_height == MaxOf({blks[b].height : b \in DOMAIN blks})
             found == StaleHeights(blks, marks, tip_height - STALE_WINDOW)
             fresh == {h \in found : /\ ~(Cardinality(AtHeight(blks, h - 1)) > 1)
                                     /\ \A c \in cands : c.height # h}
         IN  cands \cup {[height |-> h, n_children |-> Cardinality(AtHeight(blks, h)),
                          height_processed |-> NoHeight, totals |-> 0] : h \in fresh}

\* StaleCandidate::top_n(3)
top_n(cands, n) ==
    {c \in cands : Cardinality({d \in cands : d.height > c.height}) < n}

\* the first row of Block::descendants_by_work
BranchRoot(blks, root, limit) == root

\* the last row of Block::descendants_by_work
BranchTip(blks, root, limit) ==
    LET desc == {d \in StoredDescendants(blks, root) : blks[d].height < limit}
    IN  CHOOSE d \in desc : \A e \in desc :
            \/ blks[e].height < blks[d].height
            \/ blks[e].height = blks[d].height /\ Rank(e) <= Rank(d)

\* the rows set_children writes for a candidate
ChildRows(blks, c) ==
    {[candidate_height |-> c.height, root_id |-> b,
      tip_id |-> BranchTip(blks, b, c.height + STALE_WINDOW),
      len |-> Cardinality({d \in StoredDescendants(blks, b) :
                              blks[d].height < c.height + STALE_WINDOW})] :
        b \in AtHeight(blks, c.height)}

\* set_children on the candidate row: one more child per block at the height
set_children(blks, c) ==
    [c EXCEPT !.n_children = @ + Cardinality(AtHeight(blks, c.height))]

\* the guard of process_stale_candidates on a candidate
NeedsChildren(blks, rows, c) ==
    LET tip_height == MaxOf({blks[b].height : b \in DOMAIN blks})
    IN  \/ {r \in rows : r.candidate_height = c.height} = {}
        \/ c.height_processed = NoHeight
        \/ /\ c.height_processed < tip_height
           /\ c.height_processed <= c.height + DOUBLE_SPEND_RANGE

\* process_stale_candidates: the candidate rows and the children rows after it.
\* set_conflicting_txs returns at once: get_confirmed_in_one_branch answers
\* None unless n_children = 2, and set_children has left at least 4.
process_stale_candidates(blks, cands, rows) ==
    LET work == {c \in top_n(cands, 3) : NeedsChildren(blks, rows, c)}
    IN  [stale |-> (cands \ work) \cup {set_children(blks, c) : c \in work},
         children |-> {r \in rows : \A c \in work : r.candidate_height # c.height}
                      \cup UNION {ChildRows(blks, c) : c \in work}]

----------------------------------------------------------------------------
(* The inflation worker of inflation_checks for the mirror of MirrorNode.   *)

OpReset == [disabled |-> FALSE, reenabled |-> FALSE, invd |-> {}, recd |-> {}]

\* client.set_network_active(active) answered with success (ok) or an error
SetNetworkActive(m, active, ok) == IF ok THEN [m EXCEPT !.net = active] ELSE m

RECURSIVE CollectFrom(_, _, _, _, _)
\* the loop that fills blocks_to_check; ok = FALSE when a parent is missing
CollectFrom(blks, outsets, latest, comparison, acc) ==
    IF blks[latest].height - blks[comparison].height >= MAX_BLOCK_DEPTH
    THEN [ok |-> TRUE, list |-> acc]
    ELSE LET p == StoredParent(blks, comparison)
         IN  IF p = NoHash THEN [ok |-> FALSE, list |-> acc]
             ELSE IF <<p, MirrorNode>> \in outsets THEN [ok |-> TRUE, list |-> acc]
             ELSE CollectFrom(blks, outsets, latest, p, Append(acc, p))

Reverse(s) == [i \in 1..Len(s) |-> s[Len(s) + 1 - i]]

\* "let _ = client.set_network_active(true).expect(..); return;"
InflReturn(netOk) ==
    /\ mirror' = SetNetworkActive(mirror, TRUE, netOk)
    /\ op' = [op EXCEPT !.reenabled = TRUE]
    /\ infl' = [infl EXCEPT !.pc = IF netOk THEN "done" ELSE "panicked"]

\* stop p2p traffic
InflStart ==
    /\ infl.pc = "start"
    /\ \E netOk \in BOOLEAN :
        /\ mirror' = SetNetworkActive(mirror, FALSE, netOk)
        /\ op' = [OpReset EXCEPT !.disabled = netOk]
        /\ infl' = [pc |-> IF netOk THEN "latest" ELSE "done",
                    queue |-> <<>>, loc |-> NoLocals]
    /\ UNCHANGED <<command, clients, storeVars, subscriptions, channels, rpc, pass, events, hist, rb>>

\* get_blockchain_info, ingestion of the best block, blocks_to_check
InflLatest ==
    /\ infl.pc = "latest"
    /\ \E infoOk \in BOOLEAN, inj \in Injections, storeOk \in BOOLEAN,
          netOk \in BOOLEAN :
        IF ~infoOk
        THEN InflReturn(netOk) /\ UNCHANGED blocks
        ELSE LET latest == mirror.active
                 ing == create_block_and_ancestors(blocks, TRUE, latest,
                                                   MirrorNode, inj)
             IN  /\ blocks' = ing.blocks
                 /\ IF ~ing.ok            \* .expect(..) panics the worker
                    THEN /\ infl' = [infl EXCEPT !.pc = "panicked"]
                         /\ UNCHANGED <<mirror, op>>
                    ELSE IF ~storeOk \/ <<latest, MirrorNode>> \in tx_outsets
                    THEN InflReturn(netOk)
                    ELSE LET c == CollectFrom(ing.blocks, tx_outsets, latest,
                                              latest, <<latest>>)
                         IN  IF ~c.ok THEN InflReturn(netOk)
                             ELSE /\ infl' = [pc |-> "check",
                                              queue |-> Reverse(c.list),
                                              loc |-> NoLocals]
                                  /\ UNCHANGED <<mirror, op>>
    /\ UNCHANGED <<subscriptions, channels, inflated_blocks, command, clients, chaintips, nextId, invalid_blocks, valid_blocks, stale,
                   stale_children, tx_outsets, rpc, pass, events, hist, rb>>

\* one round of make_block_active for the next block, or the end of the worker
InflCheck ==
    /\ infl.pc = "check"
    /\ IF infl.queue = <<>>
       THEN \E netOk \in BOOLEAN :          \* restart p2p traffic
            /\ mirror' = SetNetworkActive(mirror, TRUE, netOk)
            /\ op' = [op EXCEPT !.reenabled = TRUE]
            /\ infl' = [infl EXCEPT !.pc = "done"]
       ELSE \E tipsOk \in BOOLEAN, childrenOk \in BOOLEAN, netOk \in BOOLEAN :
            LET block == Head(infl.queue)
                r == ActivateRound(blocks, mirror, infl.loc, block,
                                   blocks[block].height, tipsOk, childrenOk, {})
            IN  CASE r.res = "again" ->
                       /\ mirror' = r.m
                       /\ infl' = [infl EXCEPT !.loc = r.loc]
                       /\ op' = [op EXCEPT !.invd = @ \cup SeqToSet(r.called)]
                  [] r.res = "ok" ->
                       /\ infl' = [infl EXCEPT !.pc = "outset"]
                       /\ UNCHANGED <<mirror, op>>
                  [] r.res = "failed" -> InflReturn(netOk)
    /\ UNCHANGED <<command, clients, storeVars, subscriptions, channels, rpc, pass, events, hist, rb>>

\* the Ok arm: gettxoutsetinfo, undo the rollback, store and compare the outset
InflOutset ==
    /\ infl.pc = "outset"
    /\ \E outsetOk \in BOOLEAN, storeFail \in {"none", "create", "later"},
          netOk \in BOOLEAN :
        LET block == Head(infl.queue)
            undone == ReconsiderAll(mirror, infl.loc.inv, {})
            prev == StoredParent(blocks, block)
        IN  IF ~outsetOk
            THEN InflReturn(netOk) /\ UNCHANGED tx_outsets
            ELSE /\ tx_outsets' = IF storeFail = "create" THEN tx_outsets
                                  ELSE tx_outsets \cup {<<block, MirrorNode>>}
                 /\ IF \/ storeFail # "none"
                       \/ prev = NoHash
                       \/ <<prev, MirrorNode>> \notin tx_outsets
                    THEN /\ mirror' = SetNetworkActive(undone, TRUE, netOk)
                         /\ op' = [op EXCEPT !.recd = @ \cup SeqToSet(infl.loc.inv),
                                             !.reenabled = TRUE]
                         /\ infl' = [infl EXCEPT
                                       !.pc = IF netOk THEN "done" ELSE "panicked"]
                    ELSE /\ mirror' = undone
                         /\ op' = [op EXCEPT !.recd = @ \cup SeqToSet(infl.loc.inv)]
                         /\ infl' = [pc |-> "check", queue |-> Tail(infl.queue),
                                     loc |-> NoLocals]
    /\ UNCHANGED <<subscriptions, channels, inflated_blocks, command, clients, blocks, chaintips, nextId, invalid_blocks, valid_blocks,
                   stale, stale_children, rpc, pass, events, hist, rb>>

----------------------------------------------------------------------------
(* rollback_checks for the mirror of MirrorNode.                            *)

RbIdle == [pc |-> "idle", tips |-> <<>>, idx |-> 0, loc |-> NoLocals]

\* "continue" / the end of the loop body: the validator leaves the tip
RbLeaveTip == rb' = [rb EXCEPT !.pc = "tipdone"]

\* mirror.get_chain_tips() at the top of rollback_checks
RbStart ==
    /\ rb.pc = "idle"
    /\ infl.pc = "done"
    /\ \E tipsOk \in BOOLEAN :
        rb' = IF tipsOk
              THEN [pc |-> "tip", tips |-> GetChainTips(mirror), idx |-> 1,
                    loc |-> NoLocals]
              ELSE [RbIdle EXCEPT !.pc = "done"]
    /\ op' = OpReset
    /\ UNCHANGED <<command, clients, storeVars, subscriptions, channels, rpc, pass, events, hist, mirror, infl>>

\* a validator that does not look at the marks of the node
MarkedNever(h) == FALSE

\* is_valid || is_invalid of rollback_checks: the node of the mirror has
\* marked the block valid or invalid
Marked(h) == <<h, MirrorNode>> \in valid_blocks \/ <<h, MirrorNode>> \in invalid_blocks

\* the filters on a tip and setnetworkactive(false)
RbTip ==
    /\ rb.pc = "tip"
    /\ IF rb.idx > Len(rb.tips)
       THEN rb' = [rb EXCEPT !.pc = "done"] /\ UNCHANGED <<mirror, op>>
       ELSE LET tip == rb.tips[rb.idx]
                active_height == ActiveOf(rb.tips).height
                skipped ==
                    \/ tip.status # "valid-headers"
                    \/ tip.height < active_height - MAX_BLOCK_DEPTH
                    \/ tip.hash \notin DOMAIN blocks
                    \/ Marked(tip.hash)
            IN  \E queryOk \in BOOLEAN, netOk \in BOOLEAN :
                  IF skipped \/ ~queryOk \/ ~netOk
                  THEN /\ rb' = [rb EXCEPT !.idx = @ + 1]
                       /\ op' = OpReset
                       /\ UNCHANGED mirror
                  ELSE /\ mirror' = SetNetworkActive(mirror, FALSE, TRUE)
                       /\ op' = [OpReset EXCEPT !.disabled = TRUE]
                       /\ rb' = [rb EXCEPT !.pc = "activate", !.loc = NoLocals]
    /\ UNCHANGED <<command, clients, storeVars, subscriptions, channels, rpc, pass, events, hist, infl>>

\* one iteration of the loop of set_tip_active
RbSetTipActive ==
    /\ rb.pc = "activate"
    /\ LET tip == rb.tips[rb.idx] IN
       \E tipsOk \in BOOLEAN, childrenOk \in BOOLEAN :
        LET r == ActivateRound(blocks, mirror, rb.loc, tip.hash, tip.height,
                          tipsOk, childrenOk, {})
        IN  /\ mirror' = r.m
            /\ op' = [op EXCEPT !.invd = @ \cup SeqToSet(r.called)]
            /\ rb' = [rb EXCEPT !.loc = r.loc,
                           !.pc = CASE r.res = "again" -> "activate"
                                    [] r.res = "ok" -> "inspect"
                                    [] r.res = "failed" -> "restore"]
    /\ UNCHANGED <<command, clients, storeVars, subscriptions, channels, rpc, pass, events, hist, infl>>

\* the Ok(invalidated_hashes) arm
RbInspect ==
    /\ rb.pc = "inspect"
    /\ LET tip == rb.tips[rb.idx] IN
       \E tipsOk \in BOOLEAN, storeOk \in BOOLEAN, netOk \in BOOLEAN :
        IF ~tipsOk
        THEN RbLeaveTip /\ UNCHANGED <<mirror, op, valid_blocks>>
        ELSE LET tips == GetChainTips(mirror)
                 isInvalid(h) == TipStatus(mirror, h) = "invalid"
                                    /\ h \in Leaves \cup {mirror.active}
                 invalidTips == SelectSeq(TipOrder, isInvalid)
             IN  IF ActiveOf(tips).hash = tip.hash
                 THEN IF ~storeOk
                      THEN RbLeaveTip /\ UNCHANGED <<mirror, op, valid_blocks>>
                      ELSE /\ valid_blocks' = valid_blocks \cup {<<tip.hash, MirrorNode>>}
                           /\ mirror' = SetNetworkActive(
                                  ReconsiderAll(mirror, rb.loc.inv, {}), TRUE, netOk)
                           /\ op' = [op EXCEPT !.recd = @ \cup SeqToSet(rb.loc.inv),
                                               !.reenabled = TRUE]
                           /\ RbLeaveTip
                 ELSE /\ mirror' = SetNetworkActive(
                             ReconsiderAll(mirror, invalidTips, {}), TRUE, netOk)
                      /\ op' = [op EXCEPT !.recd = @ \cup SeqToSet(invalidTips),
                                          !.reenabled = TRUE]
                      /\ RbLeaveTip
                      /\ UNCHANGED valid_blocks
    /\ UNCHANGED <<subscriptions, channels, inflated_blocks, command, clients, blocks, chaintips, nextId, invalid_blocks, stale,
                   stale_children, tx_outsets, rpc, pass, events, hist, infl>>

\* the Err(_) arm: "Could not make tip active, restoring state..."
RbRestore ==
    /\ rb.pc = "restore"
    /\ \E tipsOk \in BOOLEAN, netOk \in BOOLEAN :
        LET net == SetNetworkActive(mirror, TRUE, netOk)
            isInvalid(h) == TipStatus(mirror, h) = "invalid"
                               /\ h \in Leaves \cup {mirror.active}
            invalidTips == SelectSeq(TipOrder, isInvalid)
        IN  /\ mirror' = IF tipsOk THEN ReconsiderAll(net, invalidTips, {})
                         ELSE net
            /\ op' = [op EXCEPT !.reenabled = TRUE,
                                !.recd = IF tipsOk THEN @ \cup SeqToSet(invalidTips)
                                         ELSE @]
            /\ RbLeaveTip
    /\ UNCHANGED <<command, clients, storeVars, subscriptions, channels, rpc, pass, events, hist, infl>>

\* on to the next valid-headers tip
RbNextTip ==
    /\ rb.pc = "tipdone"
    /\ rb' = [rb EXCEPT !.pc = "tip", !.idx = @ + 1, !.loc = NoLocals]
    /\ op' = OpReset
    /\ UNCHANGED <<command, clients, storeVars, subscriptions, channels, rpc, pass, events, hist, mirror, infl>>

\* run() comes back to the mirror in the next pass
MirrorNextPass ==
    /\ rb.pc = "done"
    /\ pass.n < MaxMirrorPasses
    /\ pass' = [pass EXCEPT !.n = @ + 1]
    /\ rb' = RbIdle
    /\ infl' = [pc |-> "start", queue |-> <<>>, loc |-> NoLocals]
    /\ op' = OpReset
    /\ UNCHANGED <<command, clients, storeVars, subscriptions, channels, rpc, events, hist, mirror>>

----------------------------------------------------------------------------
(* The SetTip command: set_tip of the api (src/src/service.rs) queues it,   *)
(* the command loop at the top of run() handles it with set_tip_active on   *)
(* node.client().                                                           *)

AddedNode == "n4"                \* a node added with add_node after start-up
StoreNodes == Nodes \cup {AddedNode}     \* Node::list as the api reads it
CommandHashes == {"y", "x", "q"}         \* "q" is not a stored block

NoCommand == [node_id |-> "none", hash |-> NoHash]

\* queue: the channel; pc, cur, loc: the command being handled and the
\* locals of its set_tip_active; children: whether Block::children answers
\* during that call (the query fails on every call of it or on none);
\* calls: the hashes passed to invalidateblock for
\* cur; iters: the iterations of the loop begun for cur; rounds: the
\* iterations that made invalidateblock calls; sent: commands queued
\* so far; drained, updated: the commands taken from the queue in this pass
\* and the payloads of the TipUpdated messages of this pass
NoCommands ==
    [queue |-> <<>>, pc |-> "idle", cur |-> NoCommand, loc |-> NoLocals,
     children |-> TRUE, calls |-> <<>>, iters |-> 0, rounds |-> 0, sent |-> 0, drained |-> 0,
     updated |-> <<>>]

\* a bitcoind at tip first that answers (up) or refuses every RPC
ClientAt(first, up) ==
    [active |-> first, invalid |-> {}, bad |-> {}, validated |-> Ancestors(first),
     net |-> TRUE, up |-> up]

IdleClients == [n \in Nodes |-> ClientAt("c", TRUE)]

\* set_tip of the api: the node must be in the nodes table
set_tip ==
    /\ command.sent < MaxCommands
    /\ \E node_id \in StoreNodes, hash \in CommandHashes :
        command' = [command EXCEPT
                      !.queue = Append(@, [node_id |-> node_id, hash |-> hash]),
                      !.sent = @ + 1]
    /\ UNCHANGED <<storeVars, subscriptions, channels, rpc, pass, events, hist, mirror, rb, infl, op,
                   clients>>

\* the reply to a handled command and the way back to the top of the loop
Answer(msg, payload) ==
    /\ events' = Append(events, msg)
    /\ command' = [command EXCEPT
                     !.pc = "idle",
                     !.iters = @ + 1,
                     !.updated = IF msg = "TipUpdated" THEN Append(@, payload)
                                 ELSE @]

\* one iteration of the loop of set_tip_active for the command being handled
SetTipActive ==
    /\ pass.pc = "commands"
    /\ command.pc = "activate"
    /\ command.iters < MaxIterations
    /\ LET node_id == command.cur.node_id
           tip_hash == command.cur.hash
           r == ActivateRound(blocks, clients[node_id], command.loc, tip_hash,
                              blocks[tip_hash].height, clients[node_id].up,
                              command.children, {})
       IN  CASE r.res = "again" ->
                       /\ clients' = [clients EXCEPT ![node_id] = r.m]
                       /\ command' = [command EXCEPT
                                        !.loc = r.loc,
                                        !.iters = @ + 1,
                                        !.calls = @ \o r.called,
                                        !.rounds = IF r.called = <<>> THEN @
                                                   ELSE @ + 1]
                       /\ UNCHANGED events
                  [] r.res = "ok" ->
                       Answer("TipUpdated", command.loc.inv) /\ UNCHANGED clients
                  [] r.res = "failed" ->
                       Answer("TipUpdateFailed", <<>>) /\ UNCHANGED clients
    /\ UNCHANGED <<storeVars, subscriptions, channels, rpc, pass, hist, mirror, rb, infl, op>>

----------------------------------------------------------------------------
(* One pass of ForkScanner::run over the store, with the mirror endpoint    *)
(* not answering: its RPCs fail, so inflation_checks and rollback_checks    *)
(* end at their first call (SpecMirror explores the answering mirror).      *)

\* the closing calls with the rollback validator ahead of the inflation checks
PhaseOrderRollbackFirst == <<"missing", "rollback", "inflation", "stale">>

\* the four closing calls of run(), in the order of the code
PhaseOrder == <<"missing", "inflation", "rollback", "stale">>

NewPass(n) == [pc |-> "start", n |-> n, idx |-> 1, changed |-> FALSE,
               clean |-> TRUE, log |-> <<>>]

NoHistory == [rpc |-> <<>>, full |-> FALSE, snap |-> <<>>]

\* a chaintip row without its surrogate ids: the parent is named by its row
TipShape(tips, r) ==
    LET ps == {q \in tips : q.id = r.parent_chaintip}
    IN  [node |-> r.node, status |-> r.status, block |-> r.block,
         height |-> r.height,
         parent |-> {[node |-> q.node, status |-> q.status, block |-> q.block] :
                        q \in ps},
         dangling |-> r.parent_chaintip # NoTip /\ ps = {}]

\* the store as the api reads it, chaintips up to their ids
Snapshot ==
    [blocks |-> blocks,
     chaintips |-> {TipShape(chaintips, r) : r \in chaintips},
     valid_blocks |-> valid_blocks,
     invalid_blocks |-> invalid_blocks,
     stale |-> stale,
     stale_children |-> stale_children]

Abort == pass' = [pass EXCEPT !.pc = "aborted", !.clean = FALSE]

\* Chaintip::purge and BlockTemplate::purge at the top of run()
Purge ==
    /\ pass.pc = "start"
    /\ \E res \in {"ok", "purgeErr", "templateErr"} :
        /\ chaintips' = IF res = "purgeErr" THEN chaintips ELSE purge(chaintips)
        /\ IF res = "ok" THEN pass' = [pass EXCEPT !.pc = "commands"] ELSE Abort
    /\ events' = <<>>
    /\ UNCHANGED <<subscriptions, channels, inflated_blocks, command, clients, blocks, nextId, invalid_blocks, valid_blocks, stale,
                   stale_children, tx_outsets, rpc, hist, mirror, rb, infl, op>>

\* the head of "while self.command.len() > 0": the loop ends on an empty
\* channel, else the next SetTip is received and set_tip_active is entered
DrainCommands ==
    /\ pass.pc = "commands"
    /\ command.pc = "idle"
    /\ IF command.queue = <<>>
       THEN /\ pass' = [pass EXCEPT !.pc = "nodes", !.idx = 1]
            /\ UNCHANGED <<command, events>>
       ELSE LET msg == Head(command.queue)
                taken == [command EXCEPT !.queue = Tail(@), !.cur = msg,
                                         !.drained = @ + 1, !.loc = NoLocals,
                                         !.calls = <<>>, !.iters = 0,
                                         !.rounds = 0]
            IN  IF msg.node_id \notin Nodes        \* .expect("Node not found!")
                THEN /\ pass' = [pass EXCEPT !.pc = "panicked"]
                     /\ command' = [taken EXCEPT !.pc = "panicked"]
                     /\ UNCHANGED events
                ELSE /\ UNCHANGED pass
                     /\ \E storeOk \in BOOLEAN, childrenOk \in BOOLEAN :
                          IF storeOk /\ msg.hash \in DOMAIN blocks
                          THEN /\ command' = [taken EXCEPT !.pc = "activate",
                                                           !.children = childrenOk]
                               /\ UNCHANGED events
                          ELSE /\ events' = Append(events, "TipUpdateFailed")
                               /\ command' = taken
    /\ UNCHANGED <<storeVars, subscriptions, channels, rpc, hist, mirror, rb, infl, op, clients>>

\* one iteration of the loop over the clients: get_blockchain_info and
\* process_client
ProcessNode ==
    /\ pass.pc = "nodes"
    /\ pass.idx <= Len(NodeList)
    /\ LET node_id == NodeList[pass.idx]
           tips == TipViews[node_id][rpc[node_id]]
           st0 == ClientState(blocks, chaintips, nextId, valid_blocks, invalid_blocks)
       IN  \E answer \in {"ok", "down", "header"} :
             LET st == IF answer = "down" THEN st0
                       ELSE process_client(st0, tips, node_id,
                                           IF answer = "header" THEN 1 ELSE 0)
             IN  /\ blocks' = st.blocks
                 /\ chaintips' = st.chaintips
                 /\ nextId' = st.nextId
                 /\ valid_blocks' = st.valid_blocks
                 /\ invalid_blocks' = st.invalid_blocks
                 /\ pass' = [pass EXCEPT
                               !.idx = @ + 1,
                               !.changed = @ \/ (st.ok /\ st.changed),
                               !.clean = @ /\ answer = "ok"]
    /\ UNCHANGED <<subscriptions, channels, inflated_blocks, command, clients, stale, stale_children, tx_outsets, rpc, events, hist,
                   mirror, rb, infl, op>>

\* lag_checks and the notices that follow it
LagChecks ==
    /\ pass.pc = "nodes"
    /\ pass.idx > Len(NodeList)
    /\ IF LagChecksPanics(chaintips, blocks)
       THEN /\ pass' = [pass EXCEPT !.pc = "panicked"]
            /\ UNCHANGED events
       ELSE /\ pass' = [pass EXCEPT !.pc = "templates"]
            /\ events' = events
                  \o (IF Lagging(chaintips, blocks) # {} THEN <<"LaggingNodes">> ELSE <<>>)
                  \o (IF pass.changed THEN <<"NewChaintip">> ELSE <<>>)
    /\ UNCHANGED <<command, clients, storeVars, subscriptions, channels, rpc, hist, mirror, rb, infl, op>>

\* the block template and fee rate section, then AllChaintips
TemplateChecks ==
    /\ pass.pc = "templates"
    /\ \E res \in {"ok", "err"} :
        IF res = "ok"
        THEN /\ pass' = [pass EXCEPT !.pc = "link", !.idx = 1]
             /\ events' = Append(events, "AllChaintips")
        ELSE Abort /\ UNCHANGED events
    /\ UNCHANGED <<command, clients, storeVars, subscriptions, channels, rpc, hist, mirror, rb, infl, op>>

\* one iteration of the linking loop
LinkTips ==
    /\ pass.pc = "link"
    /\ pass.idx <= Len(NodeList)
    /\ chaintips' = LinkNode(chaintips, blocks, invalid_blocks, NodeList[pass.idx])
    /\ pass' = IF pass.idx = Len(NodeList)
               THEN [pass EXCEPT !.pc = "phase", !.idx = 1]
               ELSE [pass EXCEPT !.idx = @ + 1]
    /\ UNCHANGED <<subscriptions, channels, inflated_blocks, command, clients, blocks, nextId, invalid_blocks, valid_blocks, stale,
                   stale_children, tx_outsets, rpc, events, hist, mirror, rb,
                   infl, op>>

AtPhase(name) ==
    /\ pass.pc = "phase"
    /\ pass.idx <= Len(PhaseOrder)
    /\ PhaseOrder[pass.idx] = name

PhaseDone(name) == pass' = [pass EXCEPT !.idx = @ + 1, !.log = Append(@, name)]

\* a node still serves the body of a block on a chain it holds as valid
Serves(node_id, h) ==
    \E i \in 1..Len(TipViews[node_id][rpc[node_id]]) :
        LET t == TipViews[node_id][rpc[node_id]][i]
        IN  t.status \in {"active", "valid-fork"} /\ h \in Ancestors(t.hash)

\* find_missing_blocks: the recent headers-only blocks a node serves lose the
\* flag; the calls to the mirror fail
FindMissingBlocks ==
    /\ AtPhase("missing")
    /\ \E up \in BOOLEAN :
        LET tip_height == MaxOf({blocks[b].height : b \in DOMAIN blocks})
            got(b) == /\ up
                      /\ blocks[b].headers_only
                      /\ tip_height - blocks[b].height < MAX_BLOCK_DEPTH
                      /\ \E n \in Nodes : Serves(n, b)
        IN  /\ blocks' = [b \in DOMAIN blocks |->
                            IF got(b) THEN [blocks[b] EXCEPT !.headers_only = FALSE]
                            ELSE blocks[b]]
            /\ PhaseDone("missing")
    /\ UNCHANGED <<subscriptions, channels, inflated_blocks, command, clients, chaintips, nextId, invalid_blocks, valid_blocks, stale,
                   stale_children, tx_outsets, rpc, events, hist, mirror, rb,
                   infl, op>>

\* inflation_checks: setnetworkactive(false) fails in the worker
InflationChecks ==
    /\ AtPhase("inflation")
    /\ PhaseDone("inflation")
    /\ UNCHANGED <<command, clients, storeVars, subscriptions, channels, rpc, events, hist, mirror, rb, infl, op>>

\* rollback_checks: getchaintips of the mirror fails
RollbackChecks ==
    /\ AtPhase("rollback")
    /\ PhaseDone("rollback")
    /\ UNCHANGED <<command, clients, storeVars, subscriptions, channels, rpc, events, hist, mirror, rb, infl, op>>

\* find_stale_candidates and process_stale_candidates
StaleChecks ==
    /\ AtPhase("stale")
    /\ LET found == find_stale_candidates(blocks, invalid_blocks, stale)
           after == process_stale_candidates(blocks, found, stale_children)
       IN  /\ stale' = after.stale
           /\ stale_children' = after.children
    /\ PhaseDone("stale")
    /\ UNCHANGED <<subscriptions, channels, inflated_blocks, command, clients, blocks, chaintips, nextId, invalid_blocks, valid_blocks,
                   tx_outsets, rpc, events, hist, mirror, rb, infl, op>>

\* the last statement of run()
EndPass ==
    /\ pass.pc = "phase"
    /\ pass.idx > Len(PhaseOrder)
    /\ events' = Append(events, "StaleCandidateUpdate")
    /\ pass' = [pass EXCEPT !.pc = "done"]
    /\ UNCHANGED <<command, clients, storeVars, subscriptions, channels, rpc, hist, mirror, rb, infl, op>>

\* main's loop calls run() again; the nodes answer as before or anew
NextPass ==
    /\ pass.pc \in {"done", "aborted"}
    /\ pass.n < MaxPasses
    /\ hist' = [rpc |-> rpc, full |-> pass.pc = "done" /\ pass.clean,
                snap |-> Snapshot]
    /\ rpc' \in RpcChoices
    /\ pass' = NewPass(pass.n + 1)
    /\ UNCHANGED <<command, clients, storeVars, subscriptions, channels, events, mirror, rb, infl, op>>

Init ==
    /\ blocks = EmptyBlocks
    /\ chaintips = {}
    /\ nextId = 1
    /\ invalid_blocks = {}
    /\ valid_blocks = {}
    /\ stale = {}
    /\ stale_children = {}
    /\ tx_outsets = {}
    /\ inflated_blocks = {}
    /\ subscriptions = NoSubscriptions
    /\ channels = <<>>
    /\ rpc \in RpcChoices
    /\ pass = NewPass(1)
    /\ events = <<>>
    /\ hist = NoHistory
    /\ mirror = "unreachable"
    /\ rb = RbIdle
    /\ infl = [pc |-> "done", queue |-> <<>>, loc |-> NoLocals]
    /\ op = OpReset
    /\ command = NoCommands
    /\ clients = IdleClients

Next ==
    \/ Purge
    \/ DrainCommands
    \/ ProcessNode
    \/ LagChecks
    \/ TemplateChecks
    \/ LinkTips
    \/ FindMissingBlocks
    \/ InflationChecks
    \/ RollbackChecks
    \/ StaleChecks
    \/ EndPass
    \/ NextPass

Spec == Init /\ [][Next]_vars

----------------------------------------------------------------------------
(* Properties of the pass, checked under Spec.                              *)

IsPrefix(s, t) == Len(s) <= Len(t) /\ \A i \in 1..Len(s) : s[i] = t[i]

Linked == {r \in chaintips : r.parent_chaintip # NoTip}

\* C4: every node has at most one chaintip row with status active.
C4_OneActiveTipPerNode ==
    \A n \in Nodes :
        Cardinality({r \in chaintips : r.node = n /\ r.status = "active"}) <= 1

\* a node's active row now holds another block than at the end of the last pass
C4_ActiveTipMoved ==
    /\ pass.n > 1
    /\ \E r \in Actives(chaintips) : \E q \in hist.snap.chaintips :
          q.node = r.node /\ q.status = "active" /\ q.block # r.block

\* C5: whenever a row has parent_chaintip = p, a row with id p exists and its
\* status is active.
C5_ParentIsActiveRow ==
    \A r \in Linked :
        \E q \in chaintips : q.id = r.parent_chaintip /\ q.status = "active"

\* a link made in an earlier pass is still there after the purge of this pass
C5_LinkSurvivesPurge == pass.n > 1 /\ pass.pc = "commands" /\ Linked # {}

\* C6 as stated: the row a parent_chaintip names is lower than the row naming it.
C6_ParentIsLower ==
    \A r \in Linked : \A q \in chaintips :
        q.id = r.parent_chaintip => q.height < r.height

\* C6 as the code has it: the row a parent_chaintip names is higher than the
\* row naming it.
C6_ParentIsHigher ==
    \A r \in Linked : \A q \in chaintips :
        q.id = r.parent_chaintip => q.height > r.height

\* a node one block behind is linked to the tip of the node ahead
C6_LinkedToHigherTip ==
    \E r \in Linked : \E q \in chaintips :
        q.id = r.parent_chaintip /\ q.node # r.node /\ q.height = r.height + 1

\* C7 as stated: within a pass the rollback validator runs after the missing
\* block fetcher and before the inflation checks, the stale candidates last.
C7_RollbackBeforeInflation ==
    IsPrefix(pass.log, <<"missing", "rollback", "inflation", "stale">>)

\* C7 as the code has it: missing blocks, then inflation checks, then the
\* rollback validator, then the stale candidates.
C7_InflationBeforeRollback ==
    IsPrefix(pass.log, <<"missing", "inflation", "rollback", "stale">>)

\* a pass that ran its four closing phases and emitted its last notice
C7_AllPhasesRan == pass.pc = "done" /\ Len(pass.log) = 4

\* C8: the purge is the first chaintip write of a pass: it deletes every row
\* that is not active and keeps the active rows as they are, and rows are
\* inserted or updated only after it.
C8_PurgeBeforeWrites ==
    [][/\ pass.pc = "start" /\ pass'.pc = "commands"
            => chaintips' = Actives(chaintips)
       /\ pass.pc = "start" => chaintips' \subseteq chaintips
       /\ chaintips' \ chaintips # {} => pass.pc \in {"nodes", "link"}]_vars

\* the purge of this pass has deleted rows and kept others
C8_PurgeDeletedRows ==
    /\ pass.n > 1
    /\ pass.pc = "commands"
    /\ chaintips # {}
    /\ Cardinality(chaintips) < Cardinality(hist.snap.chaintips)

\* C9: no error aborts a pass: a pass never returns early and never panics.
C9_NoErrorAbortsPass == pass.pc \notin {"aborted", "panicked"}

\* C10: a full pass on the answers of the full pass before it leaves the store
\* as that pass left it (chaintips up to their ids).
C10_SecondPassIsNoOp ==
    pass.pc = "done" /\ pass.clean /\ hist.full /\ hist.rpc = rpc
        => Snapshot = hist.snap

----------------------------------------------------------------------------
(* SpecMirror: the mirror operations of consecutive passes.                 *)

IdleStoreInit ==
    /\ chaintips = {}
    /\ nextId = 1
    /\ invalid_blocks = {}
    /\ stale = {}
    /\ stale_children = {}
    /\ rpc = [n1 |-> "Vc", n2 |-> "Vc"]
    /\ pass = [pc |-> "mirror", n |-> 1]
    /\ events = <<>>
    /\ hist = NoHistory
    /\ command = NoCommands
    /\ clients = IdleClients

MirrorInit ==
    /\ IdleStoreInit
    /\ blocks = FullStore
    /\ valid_blocks = {}
    /\ tx_outsets = {}
    /\ inflated_blocks = {}
    /\ subscriptions = NoSubscriptions
    /\ channels = <<>>
    /\ \E first \in {"c", "y"}, bad \in {{}, {"y"}, {"z"}} :
        /\ first \notin bad
        /\ mirror = [active |-> first, invalid |-> {}, bad |-> bad,
                     validated |-> Ancestors(first), net |-> TRUE]
    /\ rb = RbIdle
    /\ infl = [pc |-> "start", queue |-> <<>>, loc |-> NoLocals]
    /\ op = OpReset

MirrorNext ==
    \/ InflStart
    \/ InflLatest
    \/ InflCheck
    \/ InflOutset
    \/ RbStart
    \/ RbTip
    \/ RbSetTipActive
    \/ RbInspect
    \/ RbRestore
    \/ RbNextTip
    \/ MirrorNextPass

SpecMirror == MirrorInit /\ [][MirrorNext]_vars

----------------------------------------------------------------------------
(* Properties of the mirror operations, checked under SpecMirror.           *)

\* the rollback validator has left the tip it was working on
RbLeft == rb.pc = "tipdone"

\* the inflation worker has ended and rollback_checks has not started yet
InflEnded == rb.pc = "idle" /\ infl.pc \in {"done", "panicked"}

\* C1: when rollback_checks leaves a tip for which setnetworkactive(false)
\* succeeded, setnetworkactive(true) has been called for that tip, whichever
\* path the validator took through the tip.
C1_RollbackReenablesP2P == RbLeft /\ op.disabled => op.reenabled

\* C2: when the inflation worker of a node ends, by a return or by a panic,
\* after setnetworkactive(false) succeeded, it has called
\* setnetworkactive(true).
C2_InflationReenablesP2P == InflEnded /\ op.disabled => op.reenabled

\* C3: when an inflation worker ends or the rollback validator leaves a tip,
\* every hash it passed to invalidateblock has been passed to
\* reconsiderblock.
C3_InvalidatedAreReconsidered == RbLeft \/ InflEnded => op.invd \subseteq op.recd

----------------------------------------------------------------------------
(* The command loop on its own: the api queues SetTip commands, run()       *)
(* handles them at the top of each pass.  The rest of the pass (explored by *)
(* Spec) touches neither the channel nor the nodes' chains.                 *)

\* the end of the pass and the start of the next one, up to the command loop
CommandsNextPass ==
    /\ pass.pc = "nodes"
    /\ pass.n < MaxCommandPasses
    /\ pass' = [NewPass(pass.n + 1) EXCEPT !.pc = "commands"]
    /\ events' = <<>>
    /\ command' = [command EXCEPT !.drained = 0, !.updated = <<>>]
    /\ UNCHANGED <<storeVars, subscriptions, channels, rpc, hist, mirror, rb, infl, op, clients>>

CommandsInit ==
    /\ blocks = FullStore
    /\ chaintips = {}
    /\ nextId = 1
    /\ invalid_blocks = {}
    /\ valid_blocks = {}
    /\ stale = {}
    /\ stale_children = {}
    /\ tx_outsets = {}
    /\ inflated_blocks = {}
    /\ subscriptions = NoSubscriptions
    /\ channels = <<>>
    /\ rpc = [n1 |-> "Vc", n2 |-> "Vc"]
    /\ pass = [NewPass(1) EXCEPT !.pc = "commands"]
    /\ events = <<>>
    /\ hist = NoHistory
    /\ mirror = "unreachable"
    /\ rb = RbIdle
    /\ infl = [pc |-> "done", queue |-> <<>>, loc |-> NoLocals]
    /\ op = OpReset
    /\ command = NoCommands
    /\ clients \in [Nodes -> {ClientAt("c", up) : up \in BOOLEAN}]

CommandsNext ==
    \/ set_tip
    \/ DrainCommands
    \/ SetTipActive
    \/ CommandsNextPass

SpecCommands == CommandsInit /\ [][CommandsNext]_vars

\* One call of set_tip_active by the command loop: a SetTip for the first
\* node and a stored block has just been taken from the queue; the node
\* answers its RPCs or refuses them all.
ActivationInit ==
    /\ blocks = FullStore
    /\ chaintips = {}
    /\ nextId = 1
    /\ invalid_blocks = {}
    /\ valid_blocks = {}
    /\ stale = {}
    /\ stale_children = {}
    /\ tx_outsets = {}
    /\ inflated_blocks = {}
    /\ subscriptions = NoSubscriptions
    /\ channels = <<>>
    /\ rpc = [n1 |-> "Vc", n2 |-> "Vc"]
    /\ pass = [NewPass(1) EXCEPT !.pc = "commands"]
    /\ events = <<>>
    /\ hist = NoHistory
    /\ mirror = "unreachable"
    /\ rb = RbIdle
    /\ infl = [pc |-> "done", queue |-> <<>>, loc |-> NoLocals]
    /\ op = OpReset
    /\ \E hash \in CommandHashes \cap DOMAIN FullStore, childrenOk \in BOOLEAN :
        command = [NoCommands EXCEPT !.pc = "activate", !.sent = 1, !.drained = 1,
                                    !.children = childrenOk,
                                    !.cur = [node_id |-> NodeList[1], hash |-> hash]]
    /\ \E up \in BOOLEAN :
        clients = [IdleClients EXCEPT ![NodeList[1]] = ClientAt("c", up)]

SpecActivation == ActivationInit /\ [][SetTipActive]_vars

----------------------------------------------------------------------------
(* Properties of the command loop.                                          *)

IsTipReply(msg) == msg \in {"TipUpdated", "TipUpdateFailed"}

\* C16: every SetTip taken from the queue is answered by exactly one of
\* TipUpdated / TipUpdateFailed in the same pass and the pass goes on,
\* whatever node of the nodes table and whatever hash it names: between two
\* commands the replies of the pass number the commands taken in the pass,
\* and the engine has not panicked in the command loop.
C16_EveryCommandAnswered ==
    /\ command.pc # "panicked"
    /\ command.pc = "idle" => Len(SelectSeq(events, IsTipReply)) = command.drained

\* C17: the hashes carried by a TipUpdated message are the hashes passed to
\* invalidateblock during that activation, in call order.
C17_TipUpdatedListsCalls ==
    command.pc = "idle" /\ events # <<>> /\ events[Len(events)] = "TipUpdated"
        => /\ command.updated # <<>>
           /\ command.updated[Len(command.updated)] = command.calls

\* a TipUpdated sent after an activation that took two rounds of calls
C17_UpdatedAfterTwoRounds ==
    /\ command.pc = "idle"
    /\ events # <<>> /\ events[Len(events)] = "TipUpdated"
    /\ command.rounds = 2
    /\ Len(command.calls) >= 2

\* C18: an activation makes at most 100 rounds of invalidateblock calls.
C18_AtMostHundredRounds == command.rounds <= MAX_RETRY

\* C19: every call of set_tip_active comes to an end, whatever the node and
\* the store answer: the retry bound leaves room for 101 rounds and one last
\* look at the active tip, so no call begins more than MAX_RETRY + 2
\* iterations of its loop.
C19_ActivationTerminates == command.iters <= MAX_RETRY + 2

----------------------------------------------------------------------------
(* Ingestion on its own: create_block_and_ancestors called for the tips a   *)
(* node reports, the node answering each call as the injection says.  hist  *)
(* keeps the arguments of the last call, the table it started from, the     *)
(* number of rows its first run added, and whether it has been repeated.    *)

IngestTips == {"c", "y", "x", LongTip, LongHash(3)}

NoIngest ==
    [n |-> 0, hash |-> NoHash, headers_only |-> FALSE, node_id |-> NodeList[1],
     inj |-> NoInjection, before |-> EmptyBlocks, ok |-> TRUE, added |-> 0,
     again |-> FALSE]

\* what the node answers during the calls explored: everything, the second
\* header missing, every body pruned away, every body fetch failing
IngestAnswers ==
    {NoInjection, [hdrFailAt |-> 2, body |-> "ok"],
     [hdrFailAt |-> 0, body |-> "pruned"], [hdrFailAt |-> 0, body |-> "err"]}

\* one call of create_block_and_ancestors with fresh arguments; the calls of
\* one run come from one node, as in process_client
Ingest ==
    /\ hist.n < MaxIngests
    /\ \E hash \in IngestTips, headers_only \in BOOLEAN,
          node_id \in (IF hist.n = 0 THEN Nodes ELSE {hist.node_id}),
          inj \in IngestAnswers :
        LET r == create_block_and_ancestors(blocks, headers_only, hash, node_id, inj)
        IN  /\ blocks' = r.blocks
            /\ hist' = [n |-> hist.n + 1, hash |-> hash,
                        headers_only |-> headers_only, node_id |-> node_id,
                        inj |-> inj, before |-> blocks, ok |-> r.ok,
                        added |-> Cardinality(DOMAIN r.blocks \ DOMAIN blocks),
                        again |-> FALSE]
    /\ UNCHANGED <<subscriptions, channels, inflated_blocks, chaintips, nextId, invalid_blocks, valid_blocks, stale,
                   stale_children, tx_outsets, rpc, pass, events, mirror, rb,
                   infl, op, command, clients>>

\* the same call once more: same tip, node and flag, same answers
ReIngest ==
    /\ hist.n > 0
    /\ ~hist.again
    /\ LET r == create_block_and_ancestors(blocks, hist.headers_only, hist.hash,
                                           hist.node_id, hist.inj)
       IN  /\ blocks' = r.blocks
           /\ hist' = [hist EXCEPT !.before = blocks, !.ok = r.ok, !.again = TRUE]
    /\ UNCHANGED <<subscriptions, channels, inflated_blocks, chaintips, nextId, invalid_blocks, valid_blocks, stale,
                   stale_children, tx_outsets, rpc, pass, events, mirror, rb,
                   infl, op, command, clients>>

IngestInit ==
    /\ blocks = EmptyBlocks
    /\ chaintips = {}
    /\ nextId = 1
    /\ invalid_blocks = {}
    /\ valid_blocks = {}
    /\ stale = {}
    /\ stale_children = {}
    /\ tx_outsets = {}
    /\ inflated_blocks = {}
    /\ subscriptions = NoSubscriptions
    /\ channels = <<>>
    /\ rpc = [n1 |-> "Vc", n2 |-> "Vc"]
    /\ pass = [NewPass(1) EXCEPT !.pc = "nodes"]
    /\ events = <<>>
    /\ hist = NoIngest
    /\ mirror = "unreachable"
    /\ rb = RbIdle
    /\ infl = [pc |-> "done", queue |-> <<>>, loc |-> NoLocals]
    /\ op = OpReset
    /\ command = NoCommands
    /\ clients = IdleClients

IngestNext ==
    \/ Ingest
    \/ ReIngest

SpecIngest == IngestInit /\ [][IngestNext]_vars

----------------------------------------------------------------------------
(* Properties of ingestion, checked under SpecIngest.                       *)

\* C11: ingesting the same tip again, from the same node, with the same
\* headers_only argument and the same answers, adds no block row and changes
\* no field of a stored row.
C11_ReingestChangesNothing == hist.again => blocks = hist.before

\* a repeated call whose first run added rows and left the tip unconnected,
\* so that the repeated walk goes past the tip
C11_RepeatedPastTheTip ==
    /\ hist.again
    /\ hist.ok
    /\ hist.added > 1
    /\ ~blocks[hist.hash].connected

\* h and every block below it, for the blocks of the long branch too
ChainOf(h) ==
    IF h \in LongChain
    THEN {LongHash(i) : i \in 1..LongIndex[h]} \cup Ancestors("c")
    ELSE Ancestors(h)

\* the blocks of the tree from h down that the table does not hold
NotStored(blks, h) == ChainOf(h) \ DOMAIN blks

\* C12: one call for a tip with more than 100 ancestors not yet stored
\* stores exactly MAX_ANCESTRY_DEPTH rows and returns. The tip is taken as
\* not stored either, so that the rows the call stores are the rows it adds.
C12_StoresExactlyCap ==
    /\ hist.n > 0
    /\ ~hist.again
    /\ hist.ok
    /\ hist.hash \notin DOMAIN hist.before
    /\ Cardinality(NotStored(hist.before, hist.hash) \ {hist.hash})
          > MAX_ANCESTRY_DEPTH
    => hist.added = MAX_ANCESTRY_DEPTH

RECURSIVE Rooted(_, _)
\* a chain of stored blocks leads from h down to a stored block without parent
Rooted(blks, h) ==
    /\ h \in DOMAIN blks
    /\ \/ blks[h].parent_hash = NoHash
       \/ Rooted(blks, blks[h].parent_hash)

\* C14: a block is connected exactly when a chain of stored blocks leads from
\* it, through parent links, down to a stored block whose parent_hash is null.
C14_ConnectedIffRooted ==
    \A h \in DOMAIN blocks : blocks[h].connected <=> Rooted(blocks, h)

\* C15: when the node answers BLOCK_NOT_ON_DISK to the body fetches, the call
\* reports no error and stores the rows it would store with the bodies
\* served: the walk goes on to the parents up to the ancestry cap.
C15_PrunedWalksOn ==
    /\ hist.n > 0
    /\ ~hist.again
    /\ hist.inj = [hdrFailAt |-> 0, body |-> "pruned"]
    => /\ hist.ok
       /\ DOMAIN blocks =
             DOMAIN create_block_and_ancestors(hist.before, hist.headers_only,
                                               hist.hash, hist.node_id,
                                               NoInjection).blocks

----------------------------------------------------------------------------
(* The headers_only flag over the passes of run(), checked under Spec.      *)

\* C13: headers_only is monotonic: in every step of a pass (ingests,
\* find_missing_blocks, block updates) a stored block whose flag is false
\* stays stored with the flag false.
C13_HeadersOnlyStaysCleared ==
    [][\A h \in DOMAIN blocks :
          ~blocks[h].headers_only =>
              h \in DOMAIN blocks' /\ ~blocks'[h].headers_only]_vars

\* in the second pass the first node has announced again, as headers-only,
\* a tip whose flag an earlier ingest had cleared
C13_ClearedThenAnnouncedHeadersOnly ==
    /\ pass.n = 2
    /\ pass.pc = "nodes"
    /\ pass.idx = 2
    /\ pass.clean
    /\ "z" \in DOMAIN blocks
    /\ ~blocks["z"].headers_only

----------------------------------------------------------------------------
(* The linking loop of run() over three nodes whose active tips sit on      *)
(* stored blocks, one iteration per step; hist keeps the table as it was    *)
(* before the iteration and as match_children left it.                      *)

LinkList == <<"n1", "n2", "n3">>
LinkBlocks == {"a", "b", "c", "x"}
LinkMarks == {<<"b", "n3">>, <<"c", "n2">>}

NoLink == [n |-> 0, tip |-> NewTip(NoTip, NoHash, "active", NoHash, 0),
           before |-> {}, after |-> {}]

LinkInit ==
    /\ blocks = FullStore
    /\ \E at \in [1..Len(LinkList) -> LinkBlocks] :
          chaintips = {NewTip(i, LinkList[i], "active", at[i], FullStore[at[i]].height) :
                          i \in 1..Len(LinkList)}
    /\ nextId = Len(LinkList) + 1
    /\ invalid_blocks \in SUBSET LinkMarks
    /\ valid_blocks = {}
    /\ stale = {}
    /\ stale_children = {}
    /\ tx_outsets = {}
    /\ inflated_blocks = {}
    /\ subscriptions = NoSubscriptions
    /\ channels = <<>>
    /\ rpc = [n1 |-> "Vc", n2 |-> "Vc"]
    /\ pass = [NewPass(1) EXCEPT !.pc = "link"]
    /\ events = <<>>
    /\ hist = NoLink
    /\ mirror = "unreachable"
    /\ rb = RbIdle
    /\ infl = [pc |-> "done", queue |-> <<>>, loc |-> NoLocals]
    /\ op = OpReset
    /\ command = NoCommands
    /\ clients = IdleClients

\* the iteration of the linking loop for the next node of the list
LinkNextNode ==
    /\ hist.n < Len(LinkList)
    /\ LET node_id == LinkList[hist.n + 1]
           tip == FirstRow({r \in chaintips : r.node = node_id /\ r.status = "active"})
       IN  /\ chaintips' = LinkNode(chaintips, blocks, invalid_blocks, node_id)
           /\ hist' = [n |-> hist.n + 1, tip |-> tip, before |-> chaintips,
                       after |-> match_children(chaintips, blocks, invalid_blocks,
                                                tip).tips]
    /\ UNCHANGED <<subscriptions, channels, inflated_blocks, blocks, nextId, invalid_blocks, valid_blocks, stale,
                   stale_children, tx_outsets, rpc, pass, events, mirror, rb,
                   infl, op, command, clients>>

SpecLink == LinkInit /\ [][LinkNextNode]_vars

\* the blocks the walk from tip.block down to c.block passes, both included
WalkedPath(tip, c) == Ancestors(tip.block) \ (Ancestors(c.block) \ {c.block})

\* c is a tip that match_children(tip) has to link, in the table tips
Qualifies(tips, blks, marks, tip, c) ==
    /\ c \in Actives(tips)
    /\ c.id # tip.id
    /\ c.height < tip.height
    /\ c.parent_chaintip = NoTip
    /\ c.block \in DOMAIN blks
    /\ c.block \in Ancestors(tip.block)
    /\ \A b \in WalkedPath(tip, c) : b \in DOMAIN blks /\ <<b, c.node>> \notin marks

\* C20: after match_children(T) every qualifying tip has parent_chaintip =
\* T.id, however many tips qualify.
C20_LinksEveryQualifyingTip ==
    hist.n > 0 =>
        \A c \in hist.before :
            Qualifies(hist.before, blocks, invalid_blocks, hist.tip, c) =>
                \E r \in hist.after : r.id = c.id /\ r.parent_chaintip = hist.tip.id

----------------------------------------------------------------------------
(* Passes of run() while the two nodes sit on the two sides of a split:     *)
(* the first node on b (or on c above it), the second on x (or on y).       *)

\* main's loop calls run() again; the nodes answer as before or anew
SplitNextPass ==
    /\ pass.pc \in {"done", "aborted"}
    /\ pass.n < MaxSplitPasses
    /\ hist' = [rpc |-> rpc, full |-> pass.pc = "done" /\ pass.clean,
                snap |-> Snapshot]
    /\ rpc' \in SplitChoices
    /\ pass' = NewPass(pass.n + 1)
    /\ UNCHANGED <<command, clients, storeVars, subscriptions, channels, events, mirror, rb, infl, op>>

SplitInit ==
    /\ blocks = EmptyBlocks
    /\ chaintips = {}
    /\ nextId = 1
    /\ invalid_blocks = {}
    /\ valid_blocks = {}
    /\ stale = {}
    /\ stale_children = {}
    /\ tx_outsets = {}
    /\ inflated_blocks = {}
    /\ subscriptions = NoSubscriptions
    /\ channels = <<>>
    /\ rpc \in SplitChoices
    /\ pass = NewPass(1)
    /\ events = <<>>
    /\ hist = NoHistory
    /\ mirror = "unreachable"
    /\ rb = RbIdle
    /\ infl = [pc |-> "done", queue |-> <<>>, loc |-> NoLocals]
    /\ op = OpReset
    /\ command = NoCommands
    /\ clients = IdleClients

SplitNext ==
    \/ Purge
    \/ DrainCommands
    \/ ProcessNode
    \/ LagChecks
    \/ TemplateChecks
    \/ LinkTips
    \/ FindMissingBlocks
    \/ InflationChecks
    \/ RollbackChecks
    \/ StaleChecks
    \/ EndPass
    \/ SplitNextPass

SpecSplit == SplitInit /\ [][SplitNext]_vars

----------------------------------------------------------------------------
(* Properties of the stale candidates, checked under SpecSplit.             *)

CandidateHeights(cands) == {c.height : c \in cands}

\* the heights inside the window with more than one stored block and exactly
\* one stored block at the height below
SplitHeights(blks) ==
    LET heights == {blks[b].height : b \in DOMAIN blks}
    IN  {h \in heights :
            /\ h > MaxOf(heights) - STALE_WINDOW
            /\ Cardinality(AtHeight(blks, h)) > 1
            /\ Cardinality(AtHeight(blks, h - 1)) = 1}

\* C21: the stale phase of a pass adds a candidate at height h exactly when h
\* is inside the window, more than one block is stored at h and exactly one
\* at h - 1; candidates that exist stay, and no other height gets one.
C21_CandidateExactlyAtSplits ==
    [][AtPhase("stale") =>
          CandidateHeights(stale') = CandidateHeights(stale) \cup SplitHeights(blocks)]_vars

\* the heights inside the window with more than one stored block that no
\* node marked invalid and at most one stored block at the height below
CleanSplitHeights(blks, marks) ==
    LET heights == {blks[b].height : b \in DOMAIN blks}
        clean(h) == {b \in AtHeight(blks, h) : \A m \in marks : m[1] # b}
    IN  {h \in heights :
            /\ h > MaxOf(heights) - STALE_WINDOW
            /\ Cardinality(clean(h)) > 1
            /\ Cardinality(AtHeight(blks, h - 1)) <= 1}

\* C21 (amended): the stale phase adds a candidate at height h exactly when h
\* is inside the window, more than one block that no node marked invalid is
\* stored at h and at most one block at h - 1; find_stale_candidates leaves
\* the candidate rows that exist as they are.
C21_CandidateAtCleanSplits ==
    [][AtPhase("stale") =>
          /\ CandidateHeights(stale') =
                 CandidateHeights(stale) \cup CleanSplitHeights(blocks, invalid_blocks)
          /\ stale \subseteq find_stale_candidates(blocks, invalid_blocks, stale)]_vars

\* the second pass has run the stale phase over the candidate of the first,
\* with a block of another height marked invalid or none
C21_CandidateFoundAndKept ==
    /\ pass.n = 2
    /\ pass.pc = "done"
    /\ HeightOf("b") \in CandidateHeights(hist.snap.stale)
    /\ HeightOf("b") \in CandidateHeights(stale)

\* the candidates whose height holds exactly two blocks, neither with a child
TwoBareBlocks(blks, cands) ==
    {c \in cands : /\ Cardinality(AtHeight(blks, c.height)) = 2
                   /\ \A b \in AtHeight(blks, c.height) : BlockChildren(blks, b) = <<>>}

\* C22: from the end of the pass that found and processed it on, a candidate
\* with exactly two competing blocks and no descendants has n_children = 2,
\* as many as its StaleCandidateChildren rows, and totals of 0.
C22_TwoChildrenNoTotals ==
    pass.pc = "done" =>
        \A c \in TwoBareBlocks(blocks, stale) :
            /\ c.n_children = 2
            /\ Cardinality({r \in stale_children : r.candidate_height = c.height}) = 2
            /\ c.totals = 0

\* the pairs of nodes whose active tips are two blocks of one height on one
\* parent, the parent alone at its height
SplitPairs(tips, blks) ==
    {<<ta, tb>> \in Actives(tips) \X Actives(tips) :
        /\ ta.node # tb.node
        /\ ta.block # tb.block
        /\ ta.height = tb.height
        /\ ta.block \in DOMAIN blks
        /\ tb.block \in DOMAIN blks
        /\ blks[ta.block].parent_hash = blks[tb.block].parent_hash
        /\ AtHeight(blks, ta.height - 1) = {blks[ta.block].parent_hash}}

\* C23: after a pass in which two nodes reported two tips of one height on a
\* common parent that is alone at its height, a candidate exists at the
\* height of the tips and its children rows are exactly two, one rooted at
\* each tip and pointing to the last descendant of its root.
C23_SplitGivesCandidateAndTwoChildren ==
    pass.pc = "done" /\ pass.clean =>
        \A p \in SplitPairs(chaintips, blocks) :
            /\ p[1].height \in CandidateHeights(stale)
            /\ {r \in stale_children : r.candidate_height = p[1].height} =
                   {[candidate_height |-> p[1].height, root_id |-> b,
                     tip_id |-> BranchTip(blocks, b, p[1].height + STALE_WINDOW),
                     len |-> Cardinality({d \in StoredDescendants(blocks, b) :
                                blocks[d].height < p[1].height + STALE_WINDOW})] :
                       b \in {p[1].block, p[2].block}}

\* the highest stored block of the branch that starts at root
LastDescendant(blks, root) ==
    CHOOSE d \in StoredDescendants(blks, root) :
        \A e \in StoredDescendants(blks, root) : blks[e].height <= blks[d].height

\* C23 (amended): when, in addition, the two tips are the only blocks stored
\* at their height and no node has marked either of them invalid, the
\* candidate exists after the pass and its children rows are exactly two, one
\* rooted at each tip and pointing to the last descendant of its root.
C23_CleanSplitGivesCandidateAndTwoChildren ==
    pass.pc = "done" /\ pass.clean =>
        \A p \in SplitPairs(chaintips, blocks) :
            /\ AtHeight(blocks, p[1].height) = {p[1].block, p[2].block}
            /\ \A m \in invalid_blocks : m[1] \notin {p[1].block, p[2].block}
            => /\ p[1].height \in CandidateHeights(stale)
               /\ {[root_id |-> r.root_id, tip_id |-> r.tip_id] :
                      r \in {q \in stale_children : q.candidate_height = p[1].height}} =
                     {[root_id |-> b, tip_id |-> LastDescendant(blocks, b)] :
                         b \in {p[1].block, p[2].block}}
               /\ Cardinality({q \in stale_children :
                                  q.candidate_height = p[1].height}) = 2

\* a pass has ended with the nodes on b and x, and c stored above b
C23_SplitWithDescendant ==
    /\ pass.pc = "done"
    /\ pass.clean
    /\ invalid_blocks = {}
    /\ "c" \in DOMAIN blocks
    /\ \E p \in SplitPairs(chaintips, blocks) : p[1].block = "b" /\ p[2].block = "x"

----------------------------------------------------------------------------
(* The marks of the rollback validator, checked under SpecMirror.           *)

\* the tips the mirror reports as invalid
InvalidTipsOf(m) == {h \in Leaves \cup {m.active} : TipStatus(m, h) = "invalid"}

\* C24: in the step that follows the activation procedure for the
\* valid-headers tip V, ValidBlock(V, node) is written exactly when the
\* mirror's active tip is V; when it is not, no valid or invalid mark is
\* recorded for V and every invalid tip the mirror reports is reconsidered.
C24_ValidMarkIffMirrorOnTip ==
    [][rb.pc \in {"inspect", "restore"} =>
          LET V == rb.tips[rb.idx].hash
          IN  /\ <<V, MirrorNode>> \in valid_blocks' <=> mirror.active = V
              /\ mirror.active # V =>
                    /\ <<V, MirrorNode>> \notin invalid_blocks'
                    /\ InvalidTipsOf(mirror) \subseteq op'.recd]_vars

----------------------------------------------------------------------------
(* The amounts of the inflation checks: calc_max_inflation and the          *)
(* comparison of the outset of a block with the outset of its parent in     *)
(* the worker of inflation_checks.                                          *)
(*                                                                          *)
(* A count of satoshi is a record [btc, sat] that stands for                *)
(* btc * SATOSHI_TO_BTC + sat. A BigDecimal is a triple of digits in base   *)
(* SATOSHI_TO_BTC, <<d2, d1, d0>> for d2 * 10^8 + d1 + d0 * 10^-8.          *)

Sats(btc, sat) == [btc |-> btc, sat |-> sat]

\* "x >> 1"
Halve(v) == Sats(v.btc \div 2, ((v.btc % 2) * SATOSHI_TO_BTC + v.sat) \div 2)

RECURSIVE Shr(_, _)
\* "x >> n" for a shift amount below the width of the integer; nothing is left
\* to shift once the value is 0
Shr(v, n) == IF n = 0 \/ v = Sats(0, 0) THEN v ELSE Shr(Halve(v), n - 1)

\* the shift of a build that checks the shift amount (debug, overflow-checks):
\* "attempt to shift right with overflow" panics
CheckedShr(v, n) ==
    IF n < SHIFT_WIDTH THEN [ok |-> TRUE, value |-> Shr(v, n)]
    ELSE [ok |-> FALSE, value |-> v]

\* the shift of a build that does not: the amount is taken modulo the width
WrappingShr(v, n) == [ok |-> TRUE, value |-> Shr(v, n % SHIFT_WIDTH)]

Builds == {"checked", "wrapping"}

\* calc_max_inflation: ok = FALSE when the call panics
calc_max_inflation(height, build) ==
    LET interval == height \div HALVING_INTERVAL
        reward == Sats(50, 0)
    IN  IF build = "checked" THEN CheckedShr(reward, interval)
        ELSE WrappingShr(reward, interval)

\* BigDecimal::from_i64 of a count of satoshi
FromI64(v) == <<v.btc, v.sat, 0>>

\* BigDecimal::from_str of Amount::to_string: the amount in bitcoin
AmountAsBtc(v) == <<0, v.btc, v.sat>>

\* a + b on counts of satoshi
AddSats(a, b) ==
    IF a.sat + b.sat < SATOSHI_TO_BTC THEN Sats(a.btc + b.btc, a.sat + b.sat)
    ELSE Sats(a.btc + b.btc + 1, a.sat + b.sat - SATOSHI_TO_BTC)

SatsGreater(a, b) == a.btc > b.btc \/ (a.btc = b.btc /\ a.sat > b.sat)

\* a - b on BigDecimal, a >= b
DecSub(a, b) ==
    LET b0 == IF a[3] >= b[3] THEN 0 ELSE 1
        d0 == a[3] + b0 * SATOSHI_TO_BTC - b[3]
        b1 == IF a[2] - b0 >= b[2] THEN 0 ELSE 1
        d1 == a[2] - b0 + b1 * SATOSHI_TO_BTC - b[2]
    IN  <<a[1] - b1 - b[1], d1, d0>>

\* a > b on BigDecimal
DecGreater(a, b) ==
    \/ a[1] > b[1]
    \/ a[1] = b[1] /\ a[2] > b[2]
    \/ a[1] = b[1] /\ a[2] = b[2] /\ a[3] > b[3]

\* the heights explored: around the first halvings, where the reward has
\* shrunk to nothing, and where the shift amount reaches the width
InflationHeights ==
    {0, HALVING_INTERVAL - 1, HALVING_INTERVAL, 2 * HALVING_INTERVAL,
     33 * HALVING_INTERVAL, SHIFT_WIDTH * HALVING_INTERVAL - 1,
     SHIFT_WIDTH * HALVING_INTERVAL, (SHIFT_WIDTH + 1) * HALVING_INTERVAL}

\* the block N + 1 whose outset is compared and its parent N
OutsetBlock == "c"
OutsetParent == "b"

\* the total of the parent's outset, in satoshi
ParentTotal == Sats(1000, 0)

\* what the total has grown by from N to N + 1, next to the subsidy
Growths(subsidy) ==
    {Sats(0, 0), subsidy, AddSats(subsidy, Sats(0, 1)), AddSats(subsidy, subsidy)}

NoCall == [op |-> "none"]

\* a caller evaluates calc_max_inflation for two heights
CalcMaxInflation ==
    /\ \E lo \in InflationHeights, hi \in InflationHeights :
        /\ lo <= hi
        /\ hist' = [op |-> "calc", lo |-> lo, hi |-> hi,
                    at_lo |-> calc_max_inflation(lo, infl.build),
                    at_hi |-> calc_max_inflation(hi, infl.build)]
    /\ UNCHANGED <<storeVars, subscriptions, channels, rpc, pass, events, mirror, rb, infl, op, command,
                   clients>>

\* the worker after make_block_active(N + 1): gettxoutsetinfo, TxOutset::create,
\* the comparison with the outset of N, the update of the flag and
\* InflatedBlock::create
CompareOutset ==
    /\ infl.pc = "outset"
    /\ LET height == blocks[OutsetBlock].height
           max == calc_max_inflation(height, infl.build)
           subsidy == IF max.ok THEN max.value ELSE Sats(0, 0)
       IN  \E growth \in Growths(subsidy), parsed \in BOOLEAN :
             LET total == AddSats(ParentTotal, growth)
                 outset == [block_hash |-> OutsetBlock, node_id |-> MirrorNode,
                            total_amount |-> AmountAsBtc(total), inflated |-> FALSE]
                 prev_outset == CHOOSE o \in tx_outsets : o.block_hash = OutsetParent
                 inflation == DecSub(outset.total_amount, prev_outset.total_amount)
                 max_inflation == FromI64(max.value)
             IN  /\ hist' = [op |-> "compare", growth |-> growth, height |-> height,
                             parsed |-> parsed]
                 /\ IF ~parsed                  \* .expect("BigDecimal parsing failed")
                    THEN /\ infl' = [infl EXCEPT !.pc = "panicked"]
                         /\ UNCHANGED <<tx_outsets, inflated_blocks>>
                    ELSE IF ~max.ok             \* the shift panics
                    THEN /\ infl' = [infl EXCEPT !.pc = "panicked"]
                         /\ tx_outsets' = tx_outsets \cup {outset}
                         /\ UNCHANGED inflated_blocks
                    ELSE IF DecGreater(inflation, max_inflation)
                    THEN /\ infl' = [infl EXCEPT !.pc = "done"]
                         /\ tx_outsets' = tx_outsets
                               \cup {[outset EXCEPT !.inflated = TRUE]}
                         /\ inflated_blocks' = inflated_blocks
                               \cup {[block_hash |-> OutsetBlock, node_id |-> MirrorNode,
                                      max_inflation |-> max_inflation,
                                      actual_inflation |-> inflation]}
                    ELSE /\ infl' = [infl EXCEPT !.pc = "done"]
                         /\ tx_outsets' = tx_outsets \cup {outset}
                         /\ UNCHANGED inflated_blocks
    /\ UNCHANGED <<blocks, chaintips, nextId, invalid_blocks, valid_blocks, stale,
                   stale_children, rpc, pass, events, mirror, rb, op, command,
                   clients, subscriptions, channels>>

InflationInit ==
    /\ \E height \in InflationHeights \ {0} :
          blocks = (OutsetParent :>
                        [height |-> height - 1, parent_hash |-> "a", connected |-> TRUE,
                         headers_only |-> FALSE, first_seen_by |-> MirrorNode,
                         txids |-> TRUE])
                   @@ (OutsetBlock :>
                        [height |-> height, parent_hash |-> OutsetParent,
                         connected |-> FALSE, headers_only |-> FALSE,
                         first_seen_by |-> MirrorNode, txids |-> TRUE])
    /\ chaintips = {}
    /\ nextId = 1
    /\ invalid_blocks = {}
    /\ valid_blocks = {}
    /\ stale = {}
    /\ stale_children = {}
    /\ tx_outsets = {[block_hash |-> OutsetParent, node_id |-> MirrorNode,
                      total_amount |-> AmountAsBtc(ParentTotal), inflated |-> FALSE]}
    /\ inflated_blocks = {}
    /\ subscriptions = NoSubscriptions
    /\ channels = <<>>
    /\ rpc = [n1 |-> "Vc", n2 |-> "Vc"]
    /\ pass = [pc |-> "mirror", n |-> 1]
    /\ events = <<>>
    /\ hist = NoCall
    /\ mirror = [active |-> OutsetBlock, invalid |-> {}, bad |-> {},
                 validated |-> {OutsetParent, OutsetBlock}, net |-> FALSE]
    /\ rb = RbIdle
    /\ \E build \in Builds :
          infl = [pc |-> "outset", queue |-> <<OutsetBlock>>, loc |-> NoLocals,
                  build |-> build]
    /\ op = OpReset
    /\ command = NoCommands
    /\ clients = IdleClients

InflationNext ==
    \/ CalcMaxInflation
    \/ CompareOutset

SpecInflation == InflationInit /\ [][InflationNext]_vars

\* 50 * 10^8 >> (height / 210000), the shift taken as a division by the power
\* of two: nothing is left of the reward after 33 halvings
MaxBlockSubsidy(height) ==
    LET interval == height \div HALVING_INTERVAL
    IN  IF interval >= 33 THEN Sats(0, 0) ELSE Shr(Sats(50, 0), interval)

\* C25: calc_max_inflation(height) is defined for every non-negative height
\* and equals 50 * 10^8 >> (height / 210000): 50 * 10^8 below height 210000,
\* 25 * 10^8 at 210000, and never more at a higher height than at a lower one.
C25_SubsidyHalvesAndNeverGrows ==
    hist.op = "calc" =>
        /\ hist.at_lo.ok
        /\ hist.at_hi.ok
        /\ hist.at_lo.value = MaxBlockSubsidy(hist.lo)
        /\ hist.lo < HALVING_INTERVAL => hist.at_lo.value = Sats(50, 0)
        /\ hist.lo = HALVING_INTERVAL => hist.at_lo.value = Sats(25, 0)
        /\ ~SatsGreater(hist.at_hi.value, hist.at_lo.value)

\* C26: after the comparison for block N + 1, whose total exceeds the total
\* at N by growth, TxOutset(N + 1, M) is stored; it has inflated = true and an
\* InflatedBlock row exists when growth > max_block_subsidy(N + 1), and it has
\* inflated = false and no InflatedBlock row exists when growth is at most
\* the subsidy.
C26_InflatedIffGrowthAboveSubsidy ==
    hist.op = "compare" =>
        LET rows == {o \in tx_outsets : o.block_hash = OutsetBlock /\ o.node_id = MirrorNode}
            flagged == {i \in inflated_blocks : i.block_hash = OutsetBlock}
        IN  IF SatsGreater(hist.growth, MaxBlockSubsidy(hist.height))
            THEN rows # {} /\ (\A o \in rows : o.inflated) /\ flagged # {}
            ELSE rows # {} /\ (\A o \in rows : ~o.inflated) /\ flagged = {}

----------------------------------------------------------------------------
(* The listener thread of run_server (service.rs): it takes the events of   *)
(* the engine off notify_rx and forwards each to the subscribers of its     *)
(* topics. events is the channel of the engine; every channel is unbounded. *)

ScannerMessages == {"LaggingNodes", "NewChaintip", "NewBlockConflicts",
                    "AllChaintips", "StaleCandidateUpdate", "TipUpdateFailed",
                    "TipUpdated", "WatchedAddress"}

\* the topics an event is forwarded to, in the order of the match arm
TopicsOf(msg) ==
    CASE msg = "NewChaintip" -> <<"active_fork", "forks">>
      [] msg = "LaggingNodes" -> <<"lagging_nodes">>
      [] msg = "NewBlockConflicts" -> <<"invalid_block_checks">>
      [] msg = "TipUpdated" -> <<"active_fork">>
      [] msg = "TipUpdateFailed" -> <<"active_fork">>
      [] msg = "WatchedAddress" -> <<"watched_addresses">>
      [] msg = "StaleCandidateUpdate" -> <<"validation_checks">>
      [] msg = "AllChaintips" -> <<"active_fork">>

\* what the subscribers are sent for an event
Forwarded(msg) == IF msg = "AllChaintips" THEN "NewChaintip" ELSE msg

\* crossbeam send on an unbounded channel: it fails when the receiver is gone
\* and never waits for room
SendOk(ch) == ch.alive

Send(ch, msg) == IF SendOk(ch) THEN [ch EXCEPT !.queue = Append(@, msg)] ELSE ch

\* a list that keeps every sender whatever its send returned
RetainAll(subs, chans) == subs

\* subs.retain(|sub| sub.send(..).is_ok())
Retain(subs, chans) == SelectSeq(subs, LAMBDA sub : SendOk(chans[sub]))

RECURSIVE Forward(_, _, _, _)
\* the retain over each topic of the event in turn: <<subscriptions, channels>>
Forward(subs, chans, topics, msg) ==
    IF topics = <<>> THEN <<subs, chans>>
    ELSE LET topic == Head(topics)
             list == subs[topic]
             sent == [c \in DOMAIN chans |->
                         IF \E i \in 1..Len(list) : list[i] = c
                         THEN Send(chans[c], msg) ELSE chans[c]]
         IN  Forward([subs EXCEPT ![topic] = Retain(list, chans)], sent,
                     Tail(topics), msg)

\* the events the engine is seen to send and the topics subscribed to: an
\* event with two topics, one that is forwarded as another, one whose topic
\* has no subscriber
NotifiedKinds == {"NewChaintip", "AllChaintips", "StaleCandidateUpdate"}
SubscribedTopics == {"active_fork", "forks"}

NoDispatch == [sent |-> 0, op |-> "none"]

\* notify_tx.send(..) by the engine
EngineSend ==
    /\ hist.sent < MaxNotified
    /\ \E msg \in NotifiedKinds :
          /\ events' = Append(events, msg)
          /\ hist' = [sent |-> hist.sent + 1, op |-> "other"]
    /\ UNCHANGED <<storeVars, subscriptions, channels, rpc, pass, mirror, rb, infl, op,
                   command, clients>>

\* a subscribe_* handler: a new unbounded channel, its Sender pushed on the
\* list of the topic, its Receiver handed to the thread of the subscriber
Subscribe ==
    /\ Len(channels) < MaxSubscribers
    /\ \E topic \in SubscribedTopics :
          /\ channels' = Append(channels, [queue |-> <<>>, alive |-> TRUE])
          /\ subscriptions' = [subscriptions EXCEPT
                                 ![topic] = Append(@, Len(channels) + 1)]
    /\ hist' = [hist EXCEPT !.op = "other"]
    /\ UNCHANGED <<storeVars, rpc, pass, events, mirror, rb, infl, op, command, clients>>

\* the thread of a subscriber takes a message off its channel
Consume ==
    /\ \E c \in DOMAIN channels :
          /\ channels[c].alive
          /\ channels[c].queue # <<>>
          /\ channels' = [channels EXCEPT ![c].queue = Tail(@)]
    /\ hist' = [hist EXCEPT !.op = "other"]
    /\ UNCHANGED <<storeVars, subscriptions, rpc, pass, events, mirror, rb, infl, op,
                   command, clients>>

\* the thread of a subscriber sees its kill switch and ends: the Receiver is
\* dropped with whatever is queued
Leave ==
    /\ \E c \in DOMAIN channels :
          /\ channels[c].alive
          /\ channels' = [channels EXCEPT ![c] = [queue |-> <<>>, alive |-> FALSE]]
    /\ hist' = [hist EXCEPT !.op = "other"]
    /\ UNCHANGED <<storeVars, subscriptions, rpc, pass, events, mirror, rb, infl, op,
                   command, clients>>

\* one turn of the listener loop: receiver.recv() and the arm of the event
Dispatch ==
    /\ events # <<>>
    /\ LET msg == Head(events)
           out == Forward(subscriptions, channels, TopicsOf(msg), Forwarded(msg))
       IN  /\ events' = Tail(events)
           /\ subscriptions' = out[1]
           /\ channels' = out[2]
           /\ hist' = [hist EXCEPT !.op = "dispatch"]
    /\ UNCHANGED <<storeVars, rpc, pass, mirror, rb, infl, op, command, clients>>

DispatchInit ==
    /\ blocks = FullStore
    /\ chaintips = {}
    /\ nextId = 1
    /\ invalid_blocks = {}
    /\ stale = {}
    /\ stale_children = {}
    /\ rpc = [n1 |-> "Vc", n2 |-> "Vc"]
    /\ pass = [pc |-> "mirror", n |-> 1]
    /\ events = <<>>
    /\ hist = NoDispatch
    /\ command = NoCommands
    /\ clients = IdleClients
    /\ valid_blocks = {}
    /\ tx_outsets = {}
    /\ inflated_blocks = {}
    /\ subscriptions = NoSubscriptions
    /\ channels = <<>>
    /\ mirror = "unreachable"
    /\ rb = RbIdle
    /\ infl = [pc |-> "done", queue |-> <<>>, loc |-> NoLocals]
    /\ op = OpReset

DispatchNext ==
    \/ EngineSend
    \/ Subscribe
    \/ Consume
    \/ Leave
    \/ Dispatch

SpecDispatch == DispatchInit /\ [][DispatchNext]_vars

\* the subscribers on the list of a topic
Listed(subs, topic) == {subs[topic][i] : i \in 1..Len(subs[topic])}

\* C27: when the listener forwards an event to a topic, the subscribers of
\* the topic whose send fails leave its list, the subscribers whose send
\* succeeds stay on it in their order with the event on their channel, and
\* the engine can send its next event whatever is queued on any channel.
C27_FailedSendersDroppedEngineNeverBlocks ==
    /\ [](hist.sent < MaxNotified => ENABLED EngineSend)
    /\ [][events # <<>> /\ events' = Tail(events) =>
            \A i \in 1..Len(TopicsOf(Head(events))) :
               LET topic == TopicsOf(Head(events))[i]
                   list == subscriptions[topic]
               IN  /\ subscriptions'[topic] =
                          SelectSeq(list, LAMBDA sub : channels[sub].alive)
                   /\ \A sub \in Listed(subscriptions, topic) :
                         channels[sub].alive =>
                            /\ channels'[sub].alive
                            /\ channels'[sub].queue =
                                  Append(channels[sub].queue, Forwarded(Head(events)))]_vars

\* a dead and a live subscriber were on the list of a topic, an event was
\* forwarded to it, and the live one is left with two events unconsumed
C27_DeadDroppedLiveKeptWithBacklog ==
    /\ hist.op = "dispatch"
    /\ \E c \in DOMAIN channels : ~channels[c].alive
                                   /\ \A t \in Topics : c \notin Listed(subscriptions, t)
    /\ \E c \in DOMAIN channels, t \in Topics :
          /\ channels[c].alive
          /\ c \in Listed(subscriptions, t)
          /\ Len(channels[c].queue) >= 2

----------------------------------------------------------------------------
(* The loop of run() over the nodes, with what each node answers: every     *)
(* call, no tip at all, a refused get_chain_tips, or a refused header call  *)
(* at one of the tips.                                                      *)

NodeAnswers == {[kind |-> "ok", failAt |-> 0], [kind |-> "empty", failAt |-> 0],
                [kind |-> "refused", failAt |-> 0], [kind |-> "header", failAt |-> 1],
                [kind |-> "header", failAt |-> 2], [kind |-> "header", failAt |-> 3]}

NoAnswer == [node |-> "none", kind |-> "none", failAt |-> 0, ok |-> TRUE,
             tips |-> <<>>, done |-> <<>>]

\* one iteration of the loop: process_client on the answer of the node, and
\* `continue` on its error
NodesStep ==
    /\ pass.pc = "nodes"
    /\ pass.idx <= Len(NodeList)
    /\ LET node_id == NodeList[pass.idx]
           st0 == ClientState(blocks, chaintips, nextId, valid_blocks, invalid_blocks)
       IN  \E answer \in NodeAnswers :
             LET tips == IF answer.kind = "empty" THEN <<>>
                         ELSE TipViews[node_id][rpc[node_id]]
             IN  \E st \in {IF answer.kind = "refused" THEN [st0 EXCEPT !.ok = FALSE]
                              ELSE process_client(st0, tips, node_id, answer.failAt)} :
                 /\ blocks' = st.blocks
                 /\ chaintips' = st.chaintips
                 /\ nextId' = st.nextId
                 /\ valid_blocks' = st.valid_blocks
                 /\ invalid_blocks' = st.invalid_blocks
                 /\ pass' = [pass EXCEPT
                               !.idx = @ + 1,
                               !.changed = @ \/ (st.ok /\ st.changed),
                               !.clean = @ /\ st.ok]
                 /\ hist' = [node |-> node_id, kind |-> answer.kind,
                             failAt |-> answer.failAt, ok |-> st.ok, tips |-> tips,
                             done |-> Append(hist.done, node_id)]
    /\ UNCHANGED <<subscriptions, channels, inflated_blocks, command, clients, stale,
                   stale_children, tx_outsets, rpc, events, mirror, rb, infl, op>>

\* the loop is over: the pass goes on to lag_checks
NodesEnd ==
    /\ pass.pc = "nodes"
    /\ pass.idx > Len(NodeList)
    /\ pass' = [pass EXCEPT !.pc = "lag"]
    /\ UNCHANGED <<storeVars, subscriptions, channels, rpc, events, hist, mirror, rb,
                   infl, op, command, clients>>

\* the next call of run() by the scanner thread
NodesNextPass ==
    /\ pass.pc = "lag"
    /\ pass.n < MaxNodePasses
    /\ rpc' \in RpcChoices
    /\ pass' = [NewPass(pass.n + 1) EXCEPT !.pc = "nodes"]
    /\ hist' = NoAnswer
    /\ UNCHANGED <<storeVars, subscriptions, channels, events, mirror, rb, infl, op,
                   command, clients>>

NodesInit ==
    /\ blocks = EmptyBlocks
    /\ chaintips = {}
    /\ nextId = 1
    /\ invalid_blocks = {}
    /\ valid_blocks = {}
    /\ stale = {}
    /\ stale_children = {}
    /\ tx_outsets = {}
    /\ inflated_blocks = {}
    /\ subscriptions = NoSubscriptions
    /\ channels = <<>>
    /\ rpc \in RpcChoices
    /\ pass = [NewPass(1) EXCEPT !.pc = "nodes"]
    /\ events = <<>>
    /\ hist = NoAnswer
    /\ mirror = "unreachable"
    /\ rb = RbIdle
    /\ infl = [pc |-> "done", queue |-> <<>>, loc |-> NoLocals]
    /\ op = OpReset
    /\ command = NoCommands
    /\ clients = IdleClients

NodesNext ==
    \/ NodesStep
    \/ NodesEnd
    \/ NodesNextPass

SpecNodes == NodesInit /\ [][NodesNext]_vars

\* nothing was written for tip: no block stored for it, no mark by node, no
\* new chaintips row on it
Skipped(tip, node) ==
    /\ tip.hash \in DOMAIN blocks' => tip.hash \in DOMAIN blocks
    /\ <<tip.hash, node>> \in valid_blocks' => <<tip.hash, node>> \in valid_blocks
    /\ <<tip.hash, node>> \in invalid_blocks' => <<tip.hash, node>> \in invalid_blocks
    /\ \A r \in chaintips' : r.block = tip.hash /\ r.node = node => r.id < nextId

----------------------------------------------------------------------------
(* check_parent and match_parent as run() calls them on the active tip T of *)
(* a node: row 1 of chaintips, next to one tip of each of two other nodes.  *)

ParentTipBlocks == {"a", "b"}
OtherTipBlocks == {"b", "c", "x", "y"}
ParentMarks == {<<"c", "n1">>, <<"b", "n1">>, <<"b", "n2">>}

\* the store with every block, and the store that lacks "c"
ParentStores == {FullStore, [h \in DOMAIN FullStore \ {"c"} |-> FullStore[h]]}

\* row 1 of the table
TipT(tips) == CHOOSE r \in tips : r.id = 1

ParentInit ==
    /\ blocks \in ParentStores
    /\ \E tb \in ParentTipBlocks, b2 \in OtherTipBlocks, b3 \in OtherTipBlocks,
          s2 \in {"active", "invalid"}, s3 \in {"active", "invalid"} :
          LET others == {NewTip(2, "n2", s2, b2, HeightOf(b2)),
                         NewTip(3, "n3", s3, b3, HeightOf(b3))}
              t == NewTip(1, "n1", "active", tb, HeightOf(tb))
          IN  \E p \in {NoTip} \cup {r.id : r \in list_active_gt(others, t.height)} :
                 chaintips = others \cup {[t EXCEPT !.parent_chaintip = p]}
    /\ nextId = 4
    /\ invalid_blocks \in SUBSET ParentMarks
    /\ valid_blocks = {}
    /\ stale = {}
    /\ stale_children = {}
    /\ tx_outsets = {}
    /\ inflated_blocks = {}
    /\ subscriptions = NoSubscriptions
    /\ channels = <<>>
    /\ rpc = [n1 |-> "Vc", n2 |-> "Vc"]
    /\ pass = [NewPass(1) EXCEPT !.pc = "link"]
    /\ events = <<>>
    /\ hist = [pc |-> "start", tip |-> TipT(chaintips), ok |-> TRUE]
    /\ mirror = "unreachable"
    /\ rb = RbIdle
    /\ infl = [pc |-> "done", queue |-> <<>>, loc |-> NoLocals]
    /\ op = OpReset
    /\ command = NoCommands
    /\ clients = IdleClients

\* self.check_parent(&mut tip): the in-memory tip is kept in hist.tip
CheckParent ==
    /\ hist.pc = "start"
    /\ LET cp == check_parent(chaintips, blocks, hist.tip)
       IN  /\ chaintips' = IF cp.tip = hist.tip THEN chaintips
                           ELSE UpdateTip(chaintips, cp.tip)
           /\ hist' = [pc |-> "checked", tip |-> cp.tip, ok |-> cp.ok]
    /\ UNCHANGED <<subscriptions, channels, inflated_blocks, blocks, nextId,
                   invalid_blocks, valid_blocks, stale, stale_children, tx_outsets,
                   rpc, pass, events, mirror, rb, infl, op, command, clients>>

\* self.match_parent(&mut tip, node), unless check_parent returned an error
MatchParent ==
    /\ hist.pc = "checked"
    /\ hist.ok
    /\ LET mp == match_parent(chaintips, blocks, invalid_blocks, hist.tip)
       IN  /\ chaintips' = IF mp = hist.tip THEN chaintips ELSE UpdateTip(chaintips, mp)
           /\ hist' = [pc |-> "matched", tip |-> mp, ok |-> TRUE]
    /\ UNCHANGED <<subscriptions, channels, inflated_blocks, blocks, nextId,
                   invalid_blocks, valid_blocks, stale, stale_children, tx_outsets,
                   rpc, pass, events, mirror, rb, infl, op, command, clients>>

ParentNext ==
    \/ CheckParent
    \/ MatchParent

SpecParent == ParentInit /\ [][ParentNext]_vars

RECURSIVE StoredPath(_, _, _)
\* the stored blocks from b down to target, both included; {} when target
\* is not among the stored ancestors of b
StoredPath(blks, b, target) ==
    IF b \notin DOMAIN blks THEN {}
    ELSE IF b = target THEN {b}
    ELSE IF blks[b].parent_hash = NoHash \/ blks[b].height <= blks[target].height THEN {}
    ELSE LET rest == StoredPath(blks, blks[b].parent_hash, target)
         IN  IF rest = {} THEN {} ELSE rest \cup {b}

\* C29: check_parent leaves the row of T without parent_chaintip exactly when
\* T had one and the block of T is among the stored ancestors of an invalid
\* chaintip taller than T; otherwise the row keeps the parent_chaintip it had.
C29_ParentClearedUnderInvalidTip ==
    [][hist.pc = "start" /\ hist'.pc = "checked" =>
          LET T == TipT(chaintips)
              under == \E c \in chaintips :
                          /\ c.status = "invalid"
                          /\ c.height > T.height
                          /\ StoredPath(blocks, c.block, T.block) # {}
          IN  TipT(chaintips').parent_chaintip =
                 IF T.parent_chaintip # NoTip /\ under THEN NoTip
                 ELSE T.parent_chaintip]_vars

\* the taller active tips in the order of their ids
TallerActive(tips, T) == InOrder(list_active_gt(tips, T.height))

\* the parent_chaintip of a tip without parent after match_parent: the id of
\* the first tip of cands that fits, NoTip when none does
FirstFit(cands, fits(_)) ==
    LET hits == SelectSeq(cands, fits)
    IN  IF hits = <<>> THEN NoTip ELSE hits[1].id

----------------------------------------------------------------------------
(* Chaintip::set_active_tip on a table of active tips, some of them linked  *)
(* to a taller one.                                                         *)

TipBlocks == {"a", "b", "c", "x", "y"}

\* the tables of active rows, one row at most per node, each row without
\* parent or linked to a taller row
LinkedTips ==
    {{[NewTip(i, LinkList[i], "active", at[i], HeightOf(at[i]))
          EXCEPT !.parent_chaintip = par[i]] : i \in {j \in 1..3 : at[j] # NoHash}} :
        at \in [1..3 -> {NoHash, "a", "b", "c"}],
        par \in {f \in [1..3 -> {NoTip, 1, 2, 3}] :
                    \A i \in 1..3 : f[i] # NoTip => f[i] # i}}

\* every parent_chaintip names a stored row that is taller
WellLinked(rows) ==
    \A r \in rows : r.parent_chaintip # NoTip =>
        \E q \in rows : q.id = r.parent_chaintip /\ q.height > r.height

NoTipCall == [calls |-> 0, node |-> "none", hash |-> NoHash, rows |-> 0,
              before |-> {}]

TipInit ==
    /\ blocks = FullStore
    /\ chaintips \in {rows \in LinkedTips : WellLinked(rows)}
    /\ nextId = 4
    /\ invalid_blocks = {}
    /\ valid_blocks = {}
    /\ stale = {}
    /\ stale_children = {}
    /\ tx_outsets = {}
    /\ inflated_blocks = {}
    /\ subscriptions = NoSubscriptions
    /\ channels = <<>>
    /\ rpc = [n1 |-> "Vc", n2 |-> "Vc"]
    /\ pass = [NewPass(1) EXCEPT !.pc = "nodes"]
    /\ events = <<>>
    /\ hist = NoTipCall
    /\ mirror = "unreachable"
    /\ rb = RbIdle
    /\ infl = [pc |-> "done", queue |-> <<>>, loc |-> NoLocals]
    /\ op = OpReset
    /\ command = NoCommands
    /\ clients = IdleClients

\* Chaintip::set_active_tip(conn, height, hash, node) for a reported tip
SetActiveTip ==
    /\ hist.calls < MaxTipCalls
    /\ \E node_id \in {"n1", "n2", "n3"}, hash \in TipBlocks :
          \E out \in {set_active_tip(chaintips, nextId, HeightOf(hash), hash, node_id)} :
             /\ chaintips' = out.tips
             /\ nextId' = IF out.used THEN nextId + 1 ELSE nextId
             /\ hist' = [calls |-> hist.calls + 1, node |-> node_id, hash |-> hash,
                         rows |-> out.rows, before |-> chaintips]
    /\ UNCHANGED <<subscriptions, channels, inflated_blocks, blocks, invalid_blocks,
                   valid_blocks, stale, stale_children, tx_outsets, rpc, pass, events,
                   mirror, rb, infl, op, command, clients>>

SpecTip == TipInit /\ [][SetActiveTip]_vars

\* the active rows of a node
ActiveRows(tips, node_id) == {r \in tips : r.status = "active" /\ r.node = node_id}

\* C31: a call of set_active_tip for a node with a stored active row: when the
\* reported hash differs from the row's block, the row keeps its id, node and
\* status, takes the reported block and height, loses its parent_chaintip,
\* every row that referenced it loses its parent_chaintip, and no other row
\* changes; when the hash equals the row's block, no row changes and the
\* call returns 0.
C31_ActiveRowMovedInPlace ==
    [][hist'.calls = hist.calls + 1 /\ ActiveRows(chaintips, hist'.node) # {} =>
          LET tip == FirstRow(ActiveRows(chaintips, hist'.node))
              hash == hist'.hash
          IN  IF tip.block # hash
              THEN chaintips' =
                      {IF r.id = tip.id
                       THEN [id |-> tip.id, node |-> tip.node, status |-> "active",
                             block |-> hash, height |-> HeightOf(hash),
                             parent_chaintip |-> NoTip]
                       ELSE IF r.parent_chaintip = tip.id
                            THEN [r EXCEPT !.parent_chaintip = NoTip]
                            ELSE r : r \in chaintips}
              ELSE chaintips' = chaintips /\ hist'.rows = 0]_vars

\* an active row that had a parent and was the parent of another row was
\* moved to a new block
C31_LinkedRowMoved ==
    /\ hist.calls > 0
    /\ \E t \in ActiveRows(hist.before, hist.node) :
          /\ t.block # hist.hash
          /\ t.parent_chaintip # NoTip
          /\ \E r \in hist.before : r.parent_chaintip = t.id
          /\ \E r \in chaintips : r.id = t.id /\ r.block = hist.hash

----------------------------------------------------------------------------
(* The tips a node reports as invalid, pass after pass (checked under Spec). *)

\* what process_client leaves for a reported tip it has processed
TipProcessed(tip, node_id) ==
    CASE tip.status = "active" ->
            \E r \in chaintips' : r.node = node_id /\ r.status = "active"
                                  /\ r.block = tip.hash
      [] tip.status \in {"invalid", "valid-fork"} ->
            \E r \in chaintips' \ chaintips : r.node = node_id /\ r.status = tip.status
                                              /\ r.block = tip.hash
      [] OTHER -> tip.hash \in DOMAIN blocks'

\* C32: in every pass, an iteration of the node loop in which every call of
\* the node is answered leaves, for each tip the node reports as invalid, a
\* fresh invalid chaintip row and the InvalidBlock mark (hash, node), and has
\* processed the tips reported after it.
C32_InvalidTipRecordedEveryPass ==
    [][pass.pc = "nodes" /\ pass'.pc = "nodes" /\ pass'.idx = pass.idx + 1
       /\ pass'.clean =>
          LET node_id == NodeList[pass.idx]
              tips == TipViews[node_id][rpc[node_id]]
          IN  \A i \in 1..Len(tips) :
                 tips[i].status = "invalid" =>
                    /\ TipProcessed(tips[i], node_id)
                    /\ <<tips[i].hash, node_id>> \in invalid_blocks'
                    /\ \A j \in (i + 1)..Len(tips) : TipProcessed(tips[j], node_id)]_vars

----------------------------------------------------------------------------
(* The conflicting-transaction analysis of a stale candidate (checked under *)
(* SpecSplit).                                                              *)

\* the candidates among the three highest with exactly two competing blocks,
\* both with their transactions stored
TwoBranches(blks, cands) ==
    {c \in top_n(cands, 3) :
        /\ Cardinality(AtHeight(blks, c.height)) = 2
        /\ \A b \in AtHeight(blks, c.height) : blks[b].txids}

\* C33: at the end of a pass, a stale candidate with exactly two competing
\* branches whose blocks have stored transactions has been through the
\* conflicting-transaction analysis: its height_processed is set, to a height
\* no higher than the tip.
C33_TwoBranchCandidateAnalysed ==
    pass.pc = "done" =>
        \A c \in TwoBranches(blocks, stale) :
            /\ c.height_processed # NoHeight
            /\ c.height_processed <= MaxOf({blocks[b].height : b \in DOMAIN blocks})

----------------------------------------------------------------------------
(* The tips the rollback validator leaves alone (checked under SpecMarked).  *)

\* the tip rollback_checks is looking at
RbCurrent == rb.tips[rb.idx]

\* a ValidBlock or InvalidBlock row of the mirror's node exists for that tip
RbMarked == <<RbCurrent.hash, MirrorNode>> \in valid_blocks \cup invalid_blocks

\* The main client of the mirror's node has reported a fork tip invalid in
\* an earlier pass (process_client has written the InvalidBlock row), while
\* the mirror has only the headers of that fork.
MarkedInit ==
    /\ chaintips = {}
    /\ nextId = 1
    /\ \E h \in {"y", "z"} : invalid_blocks = {<<h, MirrorNode>>}
    /\ stale = {}
    /\ stale_children = {}
    /\ rpc = [n1 |-> "Vc", n2 |-> "Vc"]
    /\ pass = [pc |-> "mirror", n |-> 1]
    /\ events = <<>>
    /\ hist = NoHistory
    /\ command = NoCommands
    /\ clients = IdleClients
    /\ blocks = FullStore
    /\ valid_blocks = {}
    /\ tx_outsets = {}
    /\ inflated_blocks = {}
    /\ subscriptions = NoSubscriptions
    /\ channels = <<>>
    /\ \E bad \in {{}, {"y"}, {"z"}} :
        mirror = [active |-> "c", invalid |-> {}, bad |-> bad,
                  validated |-> Ancestors("c"), net |-> TRUE]
    /\ rb = RbIdle
    /\ infl = [pc |-> "start", queue |-> <<>>, loc |-> NoLocals]
    /\ op = OpReset

SpecMarked == MarkedInit /\ [][MirrorNext]_vars

\* C34: rollback_checks passes over a valid-headers tip that its node has
\* marked valid or invalid without any call on the mirror (no setnetworkactive,
\* invalidateblock or reconsiderblock); the activation it starts is for a tip
\* without mark that the mirror has not been on before, and an activation
\* that ends with the mirror on the tip is not followed by another one of
\* that tip.
C34_MarkedTipsLeftAlone ==
    [][/\ rb.pc = "tip" /\ rb.idx <= Len(rb.tips) /\ RbMarked =>
             /\ rb' = [rb EXCEPT !.idx = @ + 1]
             /\ mirror' = mirror
             /\ op' = OpReset
       /\ rb.pc = "tip" /\ rb'.pc = "activate" =>
             /\ ~RbMarked
             /\ RbCurrent.hash \notin mirror.validated
       /\ rb.pc = "inspect" /\ mirror.active = RbCurrent.hash =>
             RbCurrent.hash \in mirror'.validated]_vars

\* the validator has passed over a tip of which the mirror has only the
\* headers and that the node has marked, with no call on the mirror
C34_MarkedHeadersTipPassedOver ==
    /\ rb.pc = "tip"
    /\ rb.idx > 1
    /\ \E i \in 1..(rb.idx - 1) :
          /\ rb.tips[i].status = "valid-headers"
          /\ <<rb.tips[i].hash, MirrorNode>> \in invalid_blocks
          /\ rb.tips[i].hash \notin mirror.validated
    /\ op = OpReset
    /\ mirror.net

----------------------------------------------------------------------------
(* The thread of an active_fork subscriber (handle_subscribe, service.rs)   *)
(* next to the listener thread. Under SpecSubscriber a channel also carries *)
(* the state of its thread: the kill switch (exit), the place in the loop   *)
(* (pc) and what was notified on the sink.                                  *)

\* the events of the engine that go to the topic active_fork only or first
SetTipKinds == {"TipUpdated", "TipUpdateFailed"}
ActiveForkKinds == {"NewChaintip"} \cup SetTipKinds

NewHandler == [queue |-> <<>>, alive |-> TRUE, exit |-> FALSE, pc |-> "init",
               sink |-> <<>>, stopped |-> 0]

\* notify_tx.send(..) by the engine: a changed tip, or the answer to a SetTip
\* command
ForkSend ==
    /\ hist.sent < MaxForkEvents
    /\ \E msg \in ActiveForkKinds :
          /\ events' = Append(events, msg)
          /\ hist' = [sent |-> hist.sent + 1, op |-> "other"]
    /\ UNCHANGED <<storeVars, subscriptions, channels, rpc, pass, mirror, rb, infl, op,
                   command, clients>>

\* subscribe_active_fork: kill switch, channel, Sender on the list of the
\* topic, then handle_subscribe spawns the thread
SubscribeActiveFork ==
    /\ Len(channels) < MaxHandlers
    /\ channels' = Append(channels, NewHandler)
    /\ subscriptions' = [subscriptions EXCEPT
                           !["active_fork"] = Append(@, Len(channels) + 1)]
    /\ hist' = [hist EXCEPT !.op = "other"]
    /\ UNCHANGED <<storeVars, rpc, pass, events, mirror, rb, infl, op, command, clients>>

\* unsubscribe_active_fork: the kill switch leaves the map and is set
UnsubscribeActiveFork ==
    /\ \E c \in DOMAIN channels :
          /\ ~channels[c].exit
          /\ channels' = [channels EXCEPT ![c].exit = TRUE]
    /\ hist' = [hist EXCEPT !.op = "other"]
    /\ UNCHANGED <<storeVars, subscriptions, rpc, pass, events, mirror, rb, infl, op,
                   command, clients>>

\* what a message taken off the channel adds to the sink: send_update for
\* NewChaintip, nothing for any other message
Notified(sink, msg) == IF msg = "NewChaintip" THEN Append(sink, msg) ELSE sink

\* one step of the thread: the first send_update, the load of the kill switch
\* at the top of the loop, or recv_timeout with its arm
Handler(c) ==
    /\ c \in DOMAIN channels
    /\ channels[c].pc # "ended"
    /\ LET h == channels[c] IN
       channels' = [channels EXCEPT ![c] =
           CASE h.pc = "init" -> [h EXCEPT !.sink = Append(@, "init"), !.pc = "top"]
             [] h.pc = "top" ->
                   IF h.exit
                   THEN [h EXCEPT !.pc = "ended", !.alive = FALSE, !.queue = <<>>,
                                  !.stopped = Len(h.sink)]
                   ELSE [h EXCEPT !.pc = "recv"]
             [] h.pc = "recv" ->
                   IF h.queue = <<>>
                   THEN [h EXCEPT !.pc = "top"]
                   ELSE [h EXCEPT !.queue = Tail(@), !.pc = "top",
                                  !.sink = Notified(@, Head(h.queue))]]
    /\ hist' = [hist EXCEPT !.op = "other"]
    /\ UNCHANGED <<storeVars, subscriptions, rpc, pass, events, mirror, rb, infl, op,
                   command, clients>>

HandlerStep == \E c \in 1..MaxHandlers : Handler(c)

SubscriberNext ==
    \/ ForkSend
    \/ SubscribeActiveFork
    \/ UnsubscribeActiveFork
    \/ HandlerStep
    \/ Dispatch

SpecSubscriber == DispatchInit /\ [][SubscriberNext]_vars

\* every thread runs: the listener takes what is on its channel, each handler
\* comes back from recv_timeout after five seconds at most
SpecSubscriberFair ==
    /\ DispatchInit
    /\ [][SubscriberNext]_vars
    /\ WF_vars(Dispatch)
    /\ \A c \in 1..MaxHandlers : WF_vars(Handler(c))

\* C35: a TipUpdated or TipUpdateFailed event that the listener forwards is
\* put on the channel of every live active_fork subscriber, and the handler
\* that takes it off its channel sends a notification for it on its sink.
C35_SetTipAnswerNotified ==
    [][/\ events # <<>> /\ events' = Tail(events) /\ Head(events) \in SetTipKinds =>
             \A c \in Listed(subscriptions, "active_fork") :
                channels[c].alive =>
                   channels'[c].queue = Append(channels[c].queue, Head(events))
       /\ \A c \in DOMAIN channels :
             /\ channels[c].pc = "recv"
             /\ channels'[c].pc = "top"
             /\ channels[c].queue # <<>>
             /\ Head(channels[c].queue) \in SetTipKinds
             => channels'[c].sink = Append(channels[c].sink, Head(channels[c].queue))]_vars

\* the handler of subscriber c has been told to stop
Unsubscribed(c) == c \in DOMAIN channels /\ channels[c].exit

\* the thread of subscriber c has left its loop
Ended(c) == c \in DOMAIN channels /\ channels[c].pc = "ended"

HandlerEndsAndStaysQuiet ==
    \A c \in 1..MaxHandlers :
       /\ Unsubscribed(c) ~> Ended(c)
       /\ [](Ended(c) => Len(channels[c].sink) = channels[c].stopped)

----------------------------------------------------------------------------
(* The calls create_block_and_ancestors makes on the node (checked under    *)
(* SpecIngest): one get_block_header_info at the top of every iteration,    *)
(* one get_block_info when the row that get_or_create returns is not        *)
(* connected.                                                               *)

\* one iteration, with the calls it makes added to the count
CountStep(ct, headers_only, node_id, inj) ==
    LET st == ct.st
        answered == inj.hdrFailAt # st.i + 1
        g == get_or_create(st.blocks, headers_only, node_id, st.hash)
    IN  [st |-> IngestStep(st, headers_only, node_id, inj),
         headers |-> ct.headers + 1,
         bodies |-> ct.bodies + (IF answered /\ ~g.block.connected THEN 1 ELSE 0)]

RECURSIVE CountLoop(_, _, _, _, _)
CountLoop(ct, n, headers_only, node_id, inj) ==
    IF n = 0 \/ ct.st.res # "loop" THEN ct
    ELSE IF n = 1 THEN CountStep(ct, headers_only, node_id, inj)
    ELSE CountLoop(CountLoop(ct, n \div 2, headers_only, node_id, inj),
                   n - (n \div 2), headers_only, node_id, inj)

\* the calls of the last ingestion, run again on the table it started from
LastCalls ==
    CountLoop([st |-> [blocks |-> hist.before, hash |-> hist.hash, i |-> 0,
                       res |-> "loop"],
               headers |-> 0, bodies |-> 0],
              MAX_ANCESTRY_DEPTH, hist.headers_only, hist.node_id, hist.inj)

\* the ingested hash was stored with connected = true when the call began
StartedConnected ==
    /\ hist.n > 0
    /\ hist.hash \in DOMAIN hist.before
    /\ hist.before[hist.hash].connected

\* C36: ingesting a hash whose row is already stored with connected = true
\* issues exactly one header call, fetches no body and no ancestor (no row
\* is added, no other row is touched, the row keeps its transactions) and
\* returns success.
C36_StopsAtConnectedBlock ==
    StartedConnected =>
        /\ hist.ok
        /\ LastCalls.headers = 1
        /\ LastCalls.bodies = 0
        /\ LastCalls.st.blocks = blocks
        /\ DOMAIN blocks = DOMAIN hist.before
        /\ \A h \in DOMAIN blocks \ {hist.hash} : blocks[h] = hist.before[h]
        /\ blocks[hist.hash] =
              [hist.before[hist.hash] EXCEPT
                  !.headers_only = @ /\ hist.headers_only]

\* a connected tip was ingested while the node would have refused a second
\* header call, and the call succeeded
C36_ConnectedTipSecondHeaderRefused ==
    /\ StartedConnected
    /\ hist.inj.hdrFailAt = 2
    /\ hist.before[hist.hash].parent_hash # NoHash
    /\ hist.ok

----------------------------------------------------------------------------
(* The NewChaintip notice of a pass (checked under Spec).                   *)

\* where the stored active rows of a node stand
ActiveTipOf(tips, node_id) == {<<r.block, r.height>> : r \in ActiveRows(tips, node_id)}

\* C37: whenever the loop over the nodes inserts or moves the active row of
\* a node, also in an iteration that ends on an error, the pass is marked
\* changed, and nothing else marks it; lag_checks then sends NewChaintip
\* exactly when the pass is marked changed. In the first pass in which both
\* nodes report the same tip there are two active rows on one stored block,
\* no lagging node, and NewChaintip is sent.
C37_NewChaintipIffActiveRowChanged ==
    [][/\ pass.pc = "nodes" /\ pass.idx <= Len(NodeList) /\ pass'.idx = pass.idx + 1 =>
             pass'.changed =
                (pass.changed \/ \E n \in Nodes :
                                     ActiveTipOf(chaintips', n) # ActiveTipOf(chaintips, n))
       /\ pass.pc = "nodes" /\ pass.idx > Len(NodeList) /\ pass'.pc # pass.pc =>
             /\ pass.changed =>
                   /\ Len(events') > Len(events)
                   /\ events'[Len(events')] = "NewChaintip"
             /\ ~pass.changed =>
                   \A i \in (Len(events) + 1)..Len(events') : events'[i] # "NewChaintip"
             /\ pass.n = 1 /\ pass.clean /\ rpc["n1"] = rpc["n2"] =>
                   /\ \E h \in DOMAIN blocks :
                         \A n \in Nodes : \E r \in ActiveRows(chaintips, n) : r.block = h
                   /\ Cardinality(Actives(chaintips)) = 2
                   /\ Lagging(chaintips, blocks) = {}
                   /\ events'[Len(events')] = "NewChaintip"]_vars

----------------------------------------------------------------------------
(* The inflation workers of two mirrors run by par_iter (scanner.rs         *)
(* 1409-1433), each with its own connection to the one blocks table. A      *)
(* worker is followed statement by statement through                        *)
(* create_block_and_ancestors(.., true, best_block_hash, mirror.id): the    *)
(* SELECT of Block::get_or_create, its INSERT or UPDATE, the UPDATE after   *)
(* the body was fetched. Under SpecWorkers infl maps each worker to its     *)
(* place and its copy of the row; hist keeps the table and the hash the     *)
(* workers started from.                                                    *)

Workers == Nodes

WorkerStart(h) == [pc |-> "find", hash |-> h, found |-> FALSE, row |-> <<>>,
                   res |-> "running"]

\* get_block_header_info and the SELECT of get_or_create
WorkerFind(w) ==
    /\ infl[w].pc = "find"
    /\ LET h == infl[w].hash
       IN  infl' = [infl EXCEPT ![w].pc = "write",
                                ![w].found = h \in DOMAIN blocks,
                                ![w].row = IF h \in DOMAIN blocks THEN blocks[h] ELSE <<>>]
    /\ UNCHANGED <<storeVars, subscriptions, channels, rpc, pass, events, hist, mirror,
                   rb, op, command, clients>>

\* the arm of get_or_create chosen by what the SELECT returned: the INSERT
\* with the update of the children, refused when the row exists by now, or
\* the UPDATE of the whole row from the copy read; then "if block.connected"
WorkerWrite(w) ==
    /\ infl[w].pc = "write"
    /\ LET h == infl[w].hash
           fresh == [height |-> HeightOf(h), parent_hash |-> ParentOf(h),
                     connected |-> FALSE, headers_only |-> TRUE,
                     first_seen_by |-> w, txids |-> FALSE]
           kept == [infl[w].row EXCEPT !.headers_only = KeepCleared(@, TRUE)]
           children == {k \in DOMAIN blocks : blocks[k].parent_hash = h}
       IN  IF ~infl[w].found
           THEN IF h \in DOMAIN blocks
                THEN /\ infl' = [infl EXCEPT ![w].pc = "ended", ![w].res = "failed"]
                     /\ UNCHANGED blocks
                ELSE /\ blocks' = (h :> fresh) @@ MarkConnected(blocks, children)
                     /\ infl' = [infl EXCEPT ![w].pc = "body", ![w].row = fresh]
           ELSE /\ blocks' = [blocks EXCEPT ![h] = kept]
                /\ infl' = IF kept.connected
                           THEN [infl EXCEPT ![w].pc = "ended", ![w].res = "ok",
                                             ![w].row = kept]
                           ELSE [infl EXCEPT ![w].pc = "body", ![w].row = kept]
    /\ UNCHANGED <<subscriptions, channels, inflated_blocks, chaintips, nextId,
                   invalid_blocks, valid_blocks, stale, stale_children, tx_outsets, rpc,
                   pass, events, hist, mirror, rb, op, command, clients>>

\* get_block_info, block.update with the transactions, then the parent
WorkerBody(w) ==
    /\ infl[w].pc = "body"
    /\ LET h == infl[w].hash
           full == [infl[w].row EXCEPT !.txids = TRUE]
       IN  /\ blocks' = [blocks EXCEPT ![h] = full]
           /\ infl' = IF full.parent_hash = NoHash
                      THEN [infl EXCEPT ![w].pc = "ended", ![w].res = "ok",
                                        ![w].row = full]
                      ELSE [infl EXCEPT ![w].pc = "find", ![w].hash = full.parent_hash,
                                        ![w].row = full]
    /\ UNCHANGED <<subscriptions, channels, inflated_blocks, chaintips, nextId,
                   invalid_blocks, valid_blocks, stale, stale_children, tx_outsets, rpc,
                   pass, events, hist, mirror, rb, op, command, clients>>

\* the tables the workers start from and the best block of the mirrors
WorkerTables == {IngestAll(EmptyBlocks, <<"a">>, NodeList[1]),
                 IngestAll(EmptyBlocks, <<"b">>, NodeList[1])}
WorkerTips == {"b", "c", "y"}

WorkersInit ==
    /\ \E t \in WorkerTables, h \in WorkerTips :
          /\ blocks = t
          /\ hist = [before |-> t, hash |-> h]
          /\ infl = [w \in Workers |-> WorkerStart(h)]
    /\ chaintips = {}
    /\ nextId = 1
    /\ invalid_blocks = {}
    /\ valid_blocks = {}
    /\ stale = {}
    /\ stale_children = {}
    /\ tx_outsets = {}
    /\ inflated_blocks = {}
    /\ subscriptions = NoSubscriptions
    /\ channels = <<>>
    /\ rpc = [n1 |-> "Vc", n2 |-> "Vc"]
    /\ pass = [pc |-> "mirror", n |-> 1]
    /\ events = <<>>
    /\ mirror = "unreachable"
    /\ rb = RbIdle
    /\ op = OpReset
    /\ command = NoCommands
    /\ clients = IdleClients

WorkersNext ==
    \/ \E w \in Workers : WorkerFind(w)
    \/ \E w \in Workers : WorkerWrite(w)
    \/ \E w \in Workers : WorkerBody(w)

SpecWorkers == WorkersInit /\ [][WorkersNext]_vars

\* the fields of the rows that the comparison is about
Flags(blks) == [h \in DOMAIN blks |->
                   [connected |-> blks[h].connected,
                    headers_only |-> blks[h].headers_only]]

\* the table after worker first has run to its end and then worker second
OneAfterTheOther(first, second) ==
    create_block_and_ancestors(
        create_block_and_ancestors(hist.before, TRUE, hist.hash, first,
                                   NoInjection).blocks,
        TRUE, hist.hash, second, NoInjection).blocks

\* C38: in every interleaving of two workers that ingest the same chain no
\* worker fails on an insert of its sibling, and when both have ended the
\* rows of the table, with their connected and headers_only flags, are those
\* of one worker run after the other.
C38_ParallelWorkersAsOneAfterTheOther ==
    /\ \A w \in Workers : infl[w].res # "failed"
    /\ (\A w \in Workers : infl[w].pc = "ended") =>
          \E o \in {<<"n1", "n2">>, <<"n2", "n1">>} :
             Flags(blocks) = Flags(OneAfterTheOther(o[1], o[2]))

\* a worker alone, or with a sibling that has not started, leaves what
\* create_block_and_ancestors leaves
WorkerAloneAsIngest ==
    \A w \in Workers, v \in Workers :
       /\ w # v
       /\ infl[w].pc = "ended"
       /\ infl[v] = WorkerStart(hist.hash)
       => /\ infl[w].res = "ok"
          /\ blocks = create_block_and_ancestors(hist.before, TRUE, hist.hash, w,
                                                 NoInjection).blocks

----------------------------------------------------------------------------
(* The links between the chaintips when the linking loop of a pass is over. *)
(* Under SpecReject the first node is on "b" or "c", the second stays on    *)
(* "b" and may report "c" as an invalid tip.                                *)

RejectNextPass ==
    /\ pass.pc \in {"done", "aborted"}
    /\ pass.n < MaxRejectPasses
    /\ hist' = [rpc |-> rpc, full |-> pass.pc = "done" /\ pass.clean,
                snap |-> Snapshot]
    /\ rpc' \in RejectChoices
    /\ pass' = NewPass(pass.n + 1)
    /\ UNCHANGED <<command, clients, storeVars, subscriptions, channels, events, mirror,
                   rb, infl, op>>

RejectInit ==
    /\ blocks = EmptyBlocks
    /\ chaintips = {}
    /\ nextId = 1
    /\ invalid_blocks = {}
    /\ valid_blocks = {}
    /\ stale = {}
    /\ stale_children = {}
    /\ tx_outsets = {}
    /\ inflated_blocks = {}
    /\ subscriptions = NoSubscriptions
    /\ channels = <<>>
    /\ rpc \in RejectChoices
    /\ pass = NewPass(1)
    /\ events = <<>>
    /\ hist = NoHistory
    /\ mirror = "unreachable"
    /\ rb = RbIdle
    /\ infl = [pc |-> "done", queue |-> <<>>, loc |-> NoLocals]
    /\ op = OpReset
    /\ command = NoCommands
    /\ clients = IdleClients

RejectNext ==
    \/ Purge
    \/ DrainCommands
    \/ ProcessNode
    \/ LagChecks
    \/ TemplateChecks
    \/ LinkTips
    \/ FindMissingBlocks
    \/ InflationChecks
    \/ RollbackChecks
    \/ StaleChecks
    \/ EndPass
    \/ RejectNextPass

SpecReject == RejectInit /\ [][RejectNext]_vars

\* the linking loop of this pass has just ended
LinkingOver == pass.pc = "phase" /\ pass.idx = 1

\* row c points at row t, the block of c is among the stored ancestors of
\* the block of t, and the node of c has marked no block in between invalid
WellFounded(c, t) ==
    LET path == StoredPath(blocks, t.block, c.block)
    IN  /\ path # {}
        /\ \A b \in path : <<b, c.node>> \notin invalid_blocks

\* C39: when the linking loop of a pass has ended, every chaintip with a
\* parent_chaintip points at a stored row whose block has the block of the
\* chaintip among its stored ancestors, with no block on the way marked
\* invalid by the node of the chaintip.
C39_LinksFollowUnmarkedStoredPaths ==
    LinkingOver =>
        \A c \in chaintips :
            c.parent_chaintip # NoTip =>
                \E t \in chaintips : t.id = c.parent_chaintip /\ WellFounded(c, t)
====
